---- MODULE Spec2Model ----
(***************************************************************************)
(* Nazarzoda Tajik dictionary parser: entry segmentation and field         *)
(* extraction (parse_nazarzoda.py).                                        *)
(*                                                                         *)
(* Text is a sequence of characters.  A character is a one-character       *)
(* string; the model alphabet has representatives of every character class *)
(* the parser's regular expressions distinguish:                           *)
(*   "A" "B"      uppercase Cyrillic  (class [А-ЯЁӢҚҒҲЎҶ]; А, Б)            *)
(*   "a" "t" "m" "s"  lowercase Cyrillic  (class [а-яёӣқғҳўҷ]; а, т, м, с) *)
(*   "x" "y"      Arabic-block letters (U+0600-U+06FF)                     *)
(*   "n"          ARABIC-INDIC DIGIT ONE U+0661: in the Arabic block AND   *)
(*                matched by \d (Python 3 str patterns), not by [0-9]      *)
(*   "I"          Latin roman-numeral letter ([IVX])                       *)
(*   "1" "2"      ASCII digits                                             *)
(*   " " "\t" "\n" whitespace (\s, str.strip, str.split)                   *)
(*   "." "-" "/"  punctuation the patterns name                            *)
(*   "z"          any other character (Latin lowercase)                    *)
(*   "P" "u0041" "G" "E"  the Latin capitals P, A, G, E of a page marker   *)
(*   "uXXXX"      the character with that code point, for characters that  *)
(*                belong to none of the classes above                      *)
(***************************************************************************)
EXTENDS Integers, Sequences, FiniteSets, TLC

Upper == {"A", "B"}
Lower == {"a", "t", "m", "s"}
ArabicLetter == {"x", "y"}
ArabicDigit == {"n"}
ArabicBlock == ArabicLetter \cup ArabicDigit
Roman == {"I"}
AsciiDigit == {"1", "2"}
UnicodeDigit == AsciiDigit \cup ArabicDigit
WS == {" ", "\t", "\n"}
MarkerTail == Lower \cup {".", "-"}

\* every character of the alphabet
Chars ==
    Upper \cup Lower \cup ArabicBlock \cup Roman \cup UnicodeDigit \cup WS
    \cup {".", "-", "/", "z", "P", "u0041", "G", "E"}

(***************************************************************************)
(* None of Python.  Text values are sequences, so None is a sequence that  *)
(* no text can equal; an absent definition_number is NoNumber.             *)
(***************************************************************************)
None == <<"None">>
NoNumber == 0 - 1

(***************************************************************************)
(* String helpers: str.strip, str.split, str.join, slicing, startswith.    *)
(***************************************************************************)
Slice(s, from, to) == IF from > to THEN <<>> ELSE SubSeq(s, from, to)

Indices(s) == [i \in 1..Len(s) |-> i]

\* the positions of s, in order, that hold no whitespace
NonWS(s) == SelectSeq(Indices(s), LAMBDA i : s[i] \notin WS)

\* str.strip()
Strip(s) ==
    LET keep == NonWS(s)
    IN IF keep = <<>> THEN <<>> ELSE SubSeq(s, keep[1], keep[Len(keep)])

StartsWith(s, p) == Len(p) <= Len(s) /\ SubSeq(s, 1, Len(p)) = p

\* str.split(): the maximal runs of non-whitespace characters
Split(s) ==
    LET starts == SelectSeq(Indices(s),
                            LAMBDA i : s[i] \notin WS /\ (i = 1 \/ s[i - 1] \in WS))
        ends == SelectSeq(Indices(s),
                          LAMBDA i : s[i] \notin WS /\ (i = Len(s) \/ s[i + 1] \in WS))
    IN [k \in 1..Len(starts) |-> SubSeq(s, starts[k], ends[k])]

RECURSIVE Join(_, _)
Join(parts, sep) ==
    IF parts = <<>> THEN <<>>
    ELSE IF Len(parts) = 1 THEN parts[1]
    ELSE parts[1] \o sep \o Join(Tail(parts), sep)

Reversed(q) == [i \in 1..Len(q) |-> q[Len(q) + 1 - i]]

(***************************************************************************)
(* Regular expressions.  A pattern is a tree of records; Run is the        *)
(* backtracking matcher of Python's re: alternatives left to right, greedy *)
(* repetition longest first, lazy repetition shortest first, the first     *)
(* overall success wins.  rs is the continuation (what is still to match). *)
(***************************************************************************)
Chr(S) == [k |-> "set", s |-> S]
NotChr(S) == [k |-> "nset", s |-> S]
\* the characters of q, one after the other
Lit(q) == [k |-> "lit", s |-> q]
Cat(rs) == [k |-> "seq", rs |-> rs]
Alt(a, b) == [k |-> "alt", a |-> a, b |-> b]
Rep(r, lo, hi) == [k |-> "rep", r |-> r, lo |-> lo, hi |-> hi, greedy |-> TRUE]
Star(r) == Rep(r, 0, 0 - 1)
Plus(r) == Rep(r, 1, 0 - 1)
AtLeast(r, n) == Rep(r, n, 0 - 1)
LazyPlus(r) == [k |-> "rep", r |-> r, lo |-> 1, hi |-> 0 - 1, greedy |-> FALSE]
Grp(n, r) == [k |-> "grp", n |-> n, r |-> r]
Ahead(r) == [k |-> "ahead", r |-> r]
Eol == [k |-> "eol"]

Fail == [ok |-> FALSE]
NoCaps == [n \in 1..2 |-> <<0, 0>>]

\* whether character class r (a "set" or "nset" node) matches character c
ClassHas(r, c) == IF r.k = "set" THEN c \in r.s ELSE c \notin r.s

\* the first element of a sequence of match results that succeeded, or Fail
FirstOrFail(good) == IF good = <<>> THEN Fail ELSE good[1]
FirstOk(ms) == FirstOrFail(SelectSeq(ms, LAMBDA m : m.ok))

\* result a if it succeeded, else result b (b is only computed when needed)
OrElse(a, b) == IF a.ok THEN a ELSE b

\* the number of consecutive characters of s from i on that class r matches,
\* at most hi (hi < 0: no limit)
CapAt(n, hi) == IF hi >= 0 /\ hi < n THEN hi ELSE n
FirstStop(stops, s, i) == IF stops = <<>> THEN Len(s) + 1 - i ELSE stops[1] - i
RunLength(r, s, i, hi) ==
    CapAt(FirstStop(SelectSeq([j \in 1..(Len(s) + 1 - i) |-> i + j - 1],
                              LAMBDA j : ~ClassHas(r, s[j])), s, i), hi)

\* what is left to match after one more iteration of repetition r
OneMore(r, rest) ==
    <<r.r, [r EXCEPT !.lo = IF @ > 0 THEN @ - 1 ELSE 0,
                     !.hi = IF @ > 0 THEN @ - 1 ELSE @]>> \o rest

RECURSIVE Run(_, _, _, _)
RECURSIVE RunCounts(_, _, _, _, _, _, _)
Run(rs, s, i, caps) ==
    IF Len(rs) = 0 THEN [ok |-> TRUE, end |-> i, caps |-> caps]
    ELSE CASE Head(rs).k \in {"set", "nset"} ->
                IF i <= Len(s) /\ ClassHas(Head(rs), s[i])
                THEN Run(Tail(rs), s, i + 1, caps) ELSE Fail
           [] Head(rs).k = "seq" -> Run(Head(rs).rs \o Tail(rs), s, i, caps)
           [] Head(rs).k = "lit" ->
                IF i + Len(Head(rs).s) - 1 <= Len(s)
                   /\ SubSeq(s, i, i + Len(Head(rs).s) - 1) = Head(rs).s
                THEN Run(Tail(rs), s, i + Len(Head(rs).s), caps) ELSE Fail
           [] Head(rs).k = "alt" ->
                OrElse(Run(<<Head(rs).a>> \o Tail(rs), s, i, caps),
                       Run(<<Head(rs).b>> \o Tail(rs), s, i, caps))
           [] Head(rs).k = "rep" /\ Head(rs).r.k \in {"set", "nset"} ->
                \* repetition of one character class
                IF Head(rs).lo > 0 /\ ~(i <= Len(s) /\ ClassHas(Head(rs).r, s[i]))
                THEN Fail
                ELSE RunCounts(Tail(rs), s, i, caps, Head(rs).lo,
                               RunLength(Head(rs).r, s, i, Head(rs).hi), Head(rs).greedy)
           [] Head(rs).k = "rep" /\ Head(rs).r.k \notin {"set", "nset"} ->
                IF Head(rs).lo > 0 THEN Run(OneMore(Head(rs), Tail(rs)), s, i, caps)
                ELSE IF Head(rs).hi = 0 THEN Run(Tail(rs), s, i, caps)
                ELSE IF Head(rs).greedy
                     THEN OrElse(Run(OneMore(Head(rs), Tail(rs)), s, i, caps),
                                 Run(Tail(rs), s, i, caps))
                     ELSE OrElse(Run(Tail(rs), s, i, caps),
                                 Run(OneMore(Head(rs), Tail(rs)), s, i, caps))
           [] Head(rs).k = "grp" ->
                Run(<<Head(rs).r, [k |-> "end", n |-> Head(rs).n, from |-> i]>> \o Tail(rs),
                    s, i, caps)
           [] Head(rs).k = "end" ->
                Run(Tail(rs), s, i, [caps EXCEPT ![Head(rs).n] = <<Head(rs).from, i>>])
           [] Head(rs).k = "ahead" ->
                IF Run(<<Head(rs).r>>, s, i, caps).ok
                THEN Run(Tail(rs), s, i, caps) ELSE Fail
           [] Head(rs).k = "eol" ->
                IF i = Len(s) + 1 \/ (i = Len(s) /\ s[i] = "\n")
                THEN Run(Tail(rs), s, i, caps) ELSE Fail

\* a character class repeated lo..n times, then rest: the counts are tried
\* longest first when greedy, shortest first when lazy; the first count after
\* which rest matches wins
RunCounts(rest, s, i, caps, lo, n, greedy) ==
    FirstOk([j \in 1..(n - lo + 1) |->
               Run(rest, s, i + (IF greedy THEN n + 1 - j ELSE lo + j - 1), caps)])

\* re.match(p, s): the match anchored at the start of s
Match(p, s) == Run(<<p>>, s, 1, NoCaps)

\* group n of a successful match m on s (group(n)); MEnd is m.end() as a count
Group(m, s, n) == Slice(s, m.caps[n][1], m.caps[n][2] - 1)
\* a match found at position start by a search
Found(m, start) ==
    IF m.ok THEN [ok |-> TRUE, start |-> start, end |-> m.end, caps |-> m.caps] ELSE Fail

\* re.search(p, s) from position from: the leftmost match
SearchFrom(p, s, from) ==
    FirstOk([j \in 1..(Len(s) + 2 - from) |->
               Found(Run(<<p>>, s, from + j - 1, NoCaps), from + j - 1)])

Search(p, s) == SearchFrom(p, s, 1)

\* re.findall / re.finditer: successive non-overlapping leftmost matches
RECURSIVE FindAllFrom(_, _, _)
RECURSIVE FindAllAfter(_, _, _)
FindAllFrom(p, s, from) == FindAllAfter(p, s, SearchFrom(p, s, from))
FindAllAfter(p, s, m) ==
    IF ~m.ok THEN <<>>
    ELSE <<m>> \o FindAllFrom(p, s, IF m.end > m.start THEN m.end ELSE m.end + 1)

FindAll(p, s) == FindAllFrom(p, s, 1)

\* re.sub(r'\s+', ' ', s): every whitespace run becomes one space
CollapseWS(s) ==
    LET keep == SelectSeq(Indices(s),
                          LAMBDA i : s[i] \notin WS \/ i = 1 \/ s[i - 1] \notin WS)
    IN [k \in 1..Len(keep) |-> IF s[keep[k]] \in WS THEN " " ELSE s[keep[k]]]

(***************************************************************************)
(* The parser's patterns.                                                  *)
(***************************************************************************)
\* ([А-ЯЁӢҚҒҲЎҶ]{2,}(?:\s+[IVX]+|//[А-ЯЁӢҚҒҲЎҶ]+)*)
HeadwordGroup ==
    Grp(1, Cat(<<AtLeast(Chr(Upper), 2),
                 Star(Alt(Cat(<<Plus(Chr(WS)), Plus(Chr(Roman))>>),
                          Cat(<<Chr({"/"}), Chr({"/"}), Plus(Chr(Upper))>>)))>>))

\* ^\s*(...)\s+   the segmenter's header pattern
HeaderPattern == Cat(<<Star(Chr(WS)), HeadwordGroup, Plus(Chr(WS))>>)

\* ^(...)         the extractor's headword pattern
HeadwordPattern == HeadwordGroup

\* ([а-яёӣқғҳўҷ][а-яёӣқғҳўҷ.-]{0,6})
MarkerGroup == Grp(1, Cat(<<Chr(Lower), Rep(Chr(MarkerTail), 0, 6)>>))

\* ^([а-яёӣқғҳўҷ][а-яёӣқғҳўҷ.-]{0,6})\s+
MarkerPattern == Cat(<<MarkerGroup, Plus(Chr(WS))>>)

\* ^([а-яёӣқғҳўҷ][а-яёӣқғҳўҷ.-]{0,6})\s+(?=[؀-ۿ])
LangPattern == Cat(<<MarkerGroup, Plus(Chr(WS)), Ahead(Chr(ArabicBlock))>>)

\* ^([؀-ۿ]+(?:\s+[؀-ۿ]+)*)
ArabicPattern ==
    Grp(1, Cat(<<Plus(Chr(ArabicBlock)),
                 Star(Cat(<<Plus(Chr(WS)), Plus(Chr(ArabicBlock))>>))>>))

\* (\d+)\.\s+([^0-9]+?)(?=\s+\d+\.|$)   with re.DOTALL
NumberedPattern ==
    Cat(<<Grp(1, Plus(Chr(UnicodeDigit))), Chr({"."}), Plus(Chr(WS)),
          Grp(2, LazyPlus(NotChr(AsciiDigit))),
          Ahead(Alt(Cat(<<Plus(Chr(WS)), Plus(Chr(UnicodeDigit)), Chr({"."})>>), Eol))>>)

\* ([А-ЯЁӢҚҒҲЎҶ]{2,})\s+([؀-ۿ]+)
ContaminationPattern ==
    Cat(<<Grp(1, AtLeast(Chr(Upper), 2)), Plus(Chr(WS)), Grp(2, Plus(Chr(ArabicBlock)))>>)

(***************************************************************************)
(* Abbreviation tables, as sequences of <<key, expansion>> in the source's *)
(* insertion order, restricted to the keys that can be spelled in the      *)
(* model alphabet (no other key can match a text over that alphabet).      *)
(***************************************************************************)
\* 'а.': 'арабӣ', 'м.': 'муғулӣ', 'т.': 'туркӣ', 'т.-м.': 'туркию муғулӣ'
LANGUAGE_ETYMOLOGY ==
    << << <<"a", ".">>, <<"arabi">> >>,
       << <<"m", ".">>, <<"mughuli">> >>,
       << <<"t", ".">>, <<"turki">> >>,
       << <<"t", ".", "-", "m", ".">>, <<"turkiyu mughuli">> >> >>

\* 'с.': 'сиёсӣ'
REGISTER_DOMAIN == << << <<"s", ".">>, <<"siyosi">> >> >>

Keys(table) == [i \in 1..Len(table) |-> table[i][1]]
HasKey(table, key) == \E i \in 1..Len(table) : table[i][1] = key

\* dict[key] (the last pair wins, as in a dict literal)
Lookup(table, key) ==
    table[CHOOSE i \in 1..Len(table) :
            /\ table[i][1] = key
            /\ \A j \in (i + 1)..Len(table) : table[j][1] # key][2]

\* a lookup that returns None for a missing key, whatever the default
GetOrNone(table, key, default) == IF HasKey(table, key) THEN Lookup(table, key) ELSE None

\* dict.get(key, default)
DictGet(table, key, default) == IF HasKey(table, key) THEN Lookup(table, key) ELSE default

\* sorted(keys, key=len, reverse=True): stable, longest first
RECURSIVE InsertByLenDesc(_, _)
InsertByLenDesc(sorted, key) ==
    IF sorted = <<>> THEN <<key>>
    ELSE IF Len(Head(sorted)) >= Len(key)
         THEN <<Head(sorted)>> \o InsertByLenDesc(Tail(sorted), key)
         ELSE <<key>> \o sorted

RECURSIVE SortedByLenDescFrom(_, _, _)
SortedByLenDescFrom(keys, i, acc) ==
    IF i > Len(keys) THEN acc
    ELSE SortedByLenDescFrom(keys, i + 1, InsertByLenDesc(acc, keys[i]))

SortedByLenDesc(keys) == SortedByLenDescFrom(keys, 1, <<>>)

(***************************************************************************)
(* _reverse_arabic_word_order                                              *)
(***************************************************************************)
\* the characters of the text reversed, instead of its words
ReverseCharacters(arabic_text) == Reversed(arabic_text)

\* the words left in the order they were given in
WordsKept(arabic_text) == arabic_text

ReverseArabicWordOrder(arabic_text) ==
    IF arabic_text = <<>> THEN arabic_text
    ELSE LET words == Split(arabic_text)
         IN IF Len(words) = 1 THEN arabic_text
            ELSE Join(Reversed(words), <<" ">>)

(***************************************************************************)
(* _process_entry, step by step.  Each step takes the working string       *)
(* (remainder) and returns the field it extracted and the new remainder.   *)
(***************************************************************************)
\* headword_match; headword; remainder = header_line[headword_match.end():].strip()
ExtractHeadword(header_line) ==
    LET m == Match(HeadwordPattern, header_line)
    IN IF ~m.ok THEN [ok |-> FALSE, headword |-> None, remainder |-> <<>>]
       ELSE [ok |-> TRUE,
             headword |-> Strip(Group(m, header_line, 1)),
             remainder |-> Strip(Slice(header_line, m.end, Len(header_line)))]

\* language marker (etymology): comes BEFORE Arabic
ExtractLanguage(remainder) ==
    LET m == Match(LangPattern, remainder)
        abbrev == Group(m, remainder, 1)
    IN IF ~m.ok THEN [language_marker |-> None, remainder |-> remainder]
       ELSE [language_marker |-> DictGet(LANGUAGE_ETYMOLOGY, abbrev, abbrev),
             remainder |-> Strip(Slice(remainder, m.end, Len(remainder)))]

\* the gloss read and left in the working string
ArabicNotConsumed(remainder) ==
    LET m == Match(ArabicPattern, remainder)
    IN IF ~m.ok THEN [arabic |-> None, captured |-> None, remainder |-> remainder]
       ELSE [arabic |-> ReverseArabicWordOrder(Strip(Group(m, remainder, 1))),
             captured |-> Strip(Group(m, remainder, 1)),
             remainder |-> remainder]

\* Arabic script: full phrase including spaces, word order reversed
ExtractArabic(remainder) ==
    LET m == Match(ArabicPattern, remainder)
    IN IF ~m.ok THEN [arabic |-> None, captured |-> None, remainder |-> remainder]
       ELSE [arabic |-> ReverseArabicWordOrder(Strip(Group(m, remainder, 1))),
             captured |-> Strip(Group(m, remainder, 1)),
             remainder |-> Strip(Slice(remainder, m.end, Len(remainder)))]

\* the marker at the start of the remainder, whatever follows it
StartsWithMarker(remainder, marker) == StartsWith(remainder, marker)

\* remainder.startswith(marker + ' ') or remainder == marker
RegisterMatches(remainder, marker) ==
    StartsWith(remainder, marker \o <<" ">>) \/ remainder = marker

\* the keys in the order of the table, without the sort by length
KeysInTableOrder(table) == Keys(table)

\* register_markers = sorted(REGISTER_DOMAIN.keys(), key=len, reverse=True)
RegisterMarkers(table) == SortedByLenDesc(Keys(table))

\* register marker: comes AFTER Arabic; the first marker of the list that matches
ExtractRegister(table, remainder) ==
    LET markers == RegisterMarkers(table)
        hits == {i \in 1..Len(markers) : RegisterMatches(remainder, markers[i])}
    IN IF hits = {} THEN [register |-> None, abbrev |-> None, remainder |-> remainder]
       ELSE LET first == CHOOSE i \in hits : \A j \in hits : i <= j
                marker == markers[first]
            IN [register |-> Lookup(table, marker),
                abbrev |-> marker,
                remainder |-> Strip(Slice(remainder, Len(marker) + 1, Len(remainder)))]

\* int(num) for a run of decimal digits (ARABIC-INDIC DIGIT ONE has value 1)
DigitValue(c) == IF c = "2" THEN 2 ELSE 1

RECURSIVE IntOf(_)
IntOf(digits) ==
    IF digits = <<>> THEN 0
    ELSE 10 * IntOf(SubSeq(digits, 1, Len(digits) - 1)) + DigitValue(digits[Len(digits)])

\* _parse_definitions: list of (number, definition_text)
ParseDefinitions(text) ==
    LET matches == FindAll(NumberedPattern, text)
    IN [i \in 1..Len(matches) |->
          [num |-> IntOf(Group(matches[i], text, 1)),
           text |-> CollapseWS(Strip(Group(matches[i], text, 2)))]]

\* _clean_single_definition: truncate at the first contamination pattern
CleanSingleDefinition(text) ==
    LET m == Search(ContaminationPattern, text)
    IN IF m.ok THEN Strip(Slice(text, 1, m.start - 1)) ELSE text

\* the numbered definitions left as parsed
UncleanedDefinitions(definitions) == definitions

\* _clean_definitions: the same truncation for each (number, text)
CleanDefinitions(definitions) ==
    [i \in 1..Len(definitions) |->
        LET m == Search(ContaminationPattern, definitions[i].text)
        IN [num |-> definitions[i].num,
            text |-> IF m.ok THEN Strip(Slice(definitions[i].text, 1, m.start - 1))
                     ELSE definitions[i].text]]

\* full_text = remainder + '\n' + definition_text
FullText(remainder, definition_text) == remainder \o <<"\n">> \o definition_text

\* the single definition with the order of its words reversed
WordsReversedDefinition(remainder, definition_text) ==
    ReverseArabicWordOrder(IF Strip(remainder) # <<>> THEN Strip(remainder)
                           ELSE Strip(definition_text))

\* the single, unnumbered definition: remainder, or definition_text when it is empty
SingleDefinition(remainder, definition_text) ==
    IF Strip(remainder) # <<>> THEN Strip(remainder) ELSE Strip(definition_text)

Row(base, num, text) ==
    [headword |-> base.headword, arabic |-> base.arabic,
     language_marker |-> base.language_marker, register |-> base.register,
     definition_number |-> num, definition |-> text]

\* the rows of the numbered definitions, the last one first
RowsInReverse(base, definitions) ==
    [i \in 1..Len(definitions) |->
        Row(base, definitions[Len(definitions) + 1 - i].num,
            Strip(definitions[Len(definitions) + 1 - i].text))]

\* the rows of the numbered definitions, the first one without its number
FirstRowUnnumbered(base, definitions) ==
    [i \in 1..Len(definitions) |->
        Row(base, IF i = 1 THEN NoNumber ELSE definitions[i].num,
            Strip(definitions[i].text))]

\* one row per numbered definition
NumberedRows(base, definitions) ==
    [i \in 1..Len(definitions) |->
        Row(base, definitions[i].num, Strip(definitions[i].text))]

\* the single row of an entry without numbered definitions
SingleRow(base, remainder, definition_text) ==
    <<Row(base, NoNumber, CleanSingleDefinition(SingleDefinition(remainder, definition_text)))>>

\* what _process_entry returns: None, or a list of rows
ReturnNone == [is_none |-> TRUE, rows |-> <<>>]
Return(rows) == [is_none |-> FALSE, rows |-> rows]

\* _process_entry as a whole: None, or the list of rows
ProcessEntry(header_line, definition_text, table) ==
    LET h == ExtractHeadword(header_line)
        l == ExtractLanguage(h.remainder)
        a == ExtractArabic(l.remainder)
        r == ExtractRegister(table, a.remainder)
        definitions == CleanDefinitions(ParseDefinitions(FullText(r.remainder, definition_text)))
        base == [headword |-> h.headword, arabic |-> a.arabic,
                 language_marker |-> l.language_marker, register |-> r.register]
    IN IF ~h.ok THEN ReturnNone
       ELSE IF Len(definitions) > 0 THEN Return(NumberedRows(base, definitions))
       ELSE Return(SingleRow(base, r.remainder, definition_text))

(***************************************************************************)
(* parse_dictionary_text: classification of one line.                      *)
(***************************************************************************)
Window == 100

\* header_match = re.match(r'^\s*(...)\s+', line)
HeaderMatch(line) == Match(HeaderPattern, line)

\* the lookahead reads the whole rest of the line
RestOfLine(line) == Slice(line, HeaderMatch(line).end, Len(line))

\* check_text = line[check_position:check_position + 100]
CheckText(line) ==
    LET check_position == HeaderMatch(line).end
        last == IF check_position + Window - 1 < Len(line)
                THEN check_position + Window - 1 ELSE Len(line)
    IN Slice(line, check_position, last)

\* has_arabic = bool(re.search(r'[؀-ۿ]', check_text))
HasArabic(check_text) == \E i \in 1..Len(check_text) : check_text[i] \in ArabicBlock

\* has_marker = bool(re.match(r'^([а-яёӣқғҳўҷ][а-яёӣқғҳўҷ.-]{0,6})\s+', check_text))
HasMarker(check_text) == Match(MarkerPattern, check_text).ok

\* the line matches the header pattern and the lookahead validates it
IsHeader(line) ==
    /\ HeaderMatch(line).ok
    /\ HasArabic(CheckText(line)) \/ HasMarker(CheckText(line))

\* the line matches the header pattern and the lookahead rejects it
IsFalsePositive(line) ==
    /\ HeaderMatch(line).ok
    /\ ~(HasArabic(CheckText(line)) \/ HasMarker(CheckText(line)))

\* the header kept as read, without .strip()
RawLine(line) == line

\* current_entry = line.strip()
HeaderLine(line) == Strip(line)

\* a rejected header-like line thrown away instead of kept as body text
DropFalsePositive(cur_entry, cur_lines, line) == cur_lines

\* a rejected header-like line: if current_entry is not None: current_lines.append(line.strip())
KeepFalsePositive(cur_entry, cur_lines, line) ==
    IF cur_entry # None THEN Append(cur_lines, Strip(line)) ELSE cur_lines

\* a line that is no header kept even when no entry has begun
KeepLeadingNoise(cur_entry, cur_lines, line) == Append(cur_lines, Strip(line))

\* a line that is no header: if current_entry is not None: current_lines.append(line.strip())
KeepContinuation(cur_entry, cur_lines, line) ==
    IF cur_entry # None THEN Append(cur_lines, Strip(line)) ELSE cur_lines

\* a flush whether or not an entry is in progress
AlwaysInProgress(cur_entry) == TRUE

\* "Save previous entry if exists" / "Don't forget last entry": is there one to flush
HasEntryInProgress(cur_entry) == cur_entry # None

\* entry_data = _process_entry(current_entry, '\n'.join(current_lines))
EntryData(cur_entry, cur_lines) ==
    ProcessEntry(cur_entry, Join(cur_lines, <<"\n">>), REGISTER_DOMAIN)

\* if entry_data:  (None and the empty list are falsy)
Truthy(entry_data) == ~entry_data.is_none /\ Len(entry_data.rows) > 0

(***************************************************************************)
(* clean_extracted_text.py: the character maps and the cleaning steps.     *)
(* The file's string literals hold characters outside the model alphabet;  *)
(* such a character is written "uXXXX" after its code point.  The maps are *)
(* the dict literals as written, pair by pair: a key written twice keeps   *)
(* its first position and takes its last value.                            *)
(***************************************************************************)
\* a dict literal: the keys in order of first appearance, each with the value
\* of its last pair
DictOf(pairs) ==
    LET firsts == SelectSeq(Indices(pairs),
                            LAMBDA i : \A j \in 1..(i - 1) : pairs[j][1] # pairs[i][1])
    IN [n \in 1..Len(firsts) |-> <<pairs[firsts[n]][1], Lookup(pairs, pairs[firsts[n]][1])>>]

\* TAJIK_CYRILLIC_MAP, lines 20-36
TAJIK_CYRILLIC_MAP ==
    DictOf(<<
        <<<<"u011E", "u2030">>, <<"u00D2", "u00B6">>>>,       \* line 22
        <<<<"u011E", "u0160">>, <<"u00D2", "u00B2">>>>,       \* line 23
        <<<<"u011E", "u0192">>, <<"u00D2", "u2019">>>>,       \* line 24
        <<<<"u011E", "u2021">>, <<"u00D3", "u00A2">>>>,       \* line 25
        <<<<"u011E">>, <<"u00D3", "u00AE">>>>,                \* line 26
        <<<<"u011E", "u0152">>, <<"u00D2", "u0161">>>>,       \* line 27
        <<<<"u00D1", "u2122">>, <<"u00D2", "u00B7">>>>,       \* line 30
        <<<<"u00D1", "u0161">>, <<"u00D2", "u00B3">>>>,       \* line 31
        <<<<"u00D1", "u201C">>, <<"u00D2", "u201C">>>>,       \* line 32
        <<<<"u00D1", "u2014">>, <<"u00D3", "u00A3">>>>,       \* line 33
        <<<<"u00D1">>, <<"u00D3", "u00AF">>>>,                \* line 34
        <<<<"u00D1", "u0153">>, <<"u00D2", "u203A">>>>        \* line 35
    >>)

\* ARABIC_PRESENTATION_FORMS, lines 40-141
ARABIC_PRESENTATION_FORMS ==
    DictOf(<<
        <<<<"u00EF", "u00BA">>, <<"u00D8", "u00A7">>>>,       \* line 42
        <<<<"u00EF", "u00BA">>, <<"u00D8", "u00A7">>>>,       \* line 42
        <<<<"u00EF", "u00BA">>, <<"u00D8", "u00A8">>>>,       \* line 45
        <<<<"u00EF", "u00BA">>, <<"u00D8", "u00A8">>>>,       \* line 45
        <<<<"u00EF", "u00BA", "u2019">>, <<"u00D8", "u00A8">>>>,\* line 45
        <<<<"u00EF", "u00BA", "u2018">>, <<"u00D8", "u00A8">>>>,\* line 45
        <<<<"u00EF", "u00BA", "u2013">>, <<"u00D8", "u00AA">>>>,\* line 48
        <<<<"u00EF", "u00BA", "u2022">>, <<"u00D8", "u00AA">>>>,\* line 48
        <<<<"u00EF", "u00BA", "u02DC">>, <<"u00D8", "u00AA">>>>,\* line 48
        <<<<"u00EF", "u00BA", "u2014">>, <<"u00D8", "u00AA">>>>,\* line 48
        <<<<"u00EF", "u00BA", "u0161">>, <<"u00D8", "u00AB">>>>,\* line 51
        <<<<"u00EF", "u00BA", "u2122">>, <<"u00D8", "u00AB">>>>,\* line 51
        <<<<"u00EF", "u00BA", "u0153">>, <<"u00D8", "u00AB">>>>,\* line 51
        <<<<"u00EF", "u00BA", "u203A">>, <<"u00D8", "u00AB">>>>,\* line 51
        <<<<"u00EF", "u00BA">>, <<"u00D8", "u00AC">>>>,       \* line 54
        <<<<"u00EF", "u00BA">>, <<"u00D8", "u00AC">>>>,       \* line 54
        <<<<"u00EF", "u00BA", "u00A0">>, <<"u00D8", "u00AC">>>>,\* line 54
        <<<<"u00EF", "u00BA", "u0178">>, <<"u00D8", "u00AC">>>>,\* line 54
        <<<<"u00EF", "u00BA", "u00A2">>, <<"u00D8", "u00AD">>>>,\* line 57
        <<<<"u00EF", "u00BA", "u00A1">>, <<"u00D8", "u00AD">>>>,\* line 57
        <<<<"u00EF", "u00BA", "u00A4">>, <<"u00D8", "u00AD">>>>,\* line 57
        <<<<"u00EF", "u00BA", "u00A3">>, <<"u00D8", "u00AD">>>>,\* line 57
        <<<<"u00EF", "u00BA", "u00A6">>, <<"u00D8", "u00AE">>>>,\* line 60
        <<<<"u00EF", "u00BA", "u00A5">>, <<"u00D8", "u00AE">>>>,\* line 60
        <<<<"u00EF", "u00BA", "u00A8">>, <<"u00D8", "u00AE">>>>,\* line 60
        <<<<"u00EF", "u00BA", "u00A7">>, <<"u00D8", "u00AE">>>>,\* line 60
        <<<<"u00EF", "u00BA", "u00AA">>, <<"u00D8", "u00AF">>>>,\* line 63
        <<<<"u00EF", "u00BA", "u00A9">>, <<"u00D8", "u00AF">>>>,\* line 63
        <<<<"u00EF", "u00BA", "u00AC">>, <<"u00D8", "u00B0">>>>,\* line 66
        <<<<"u00EF", "u00BA", "u00AB">>, <<"u00D8", "u00B0">>>>,\* line 66
        <<<<"u00EF", "u00BA", "u00AE">>, <<"u00D8", "u00B1">>>>,\* line 69
        <<<<"u00EF", "u00BA", "u00AD">>, <<"u00D8", "u00B1">>>>,\* line 69
        <<<<"u00EF", "u00BA", "u00B0">>, <<"u00D8", "u00B2">>>>,\* line 72
        <<<<"u00EF", "u00BA", "u00AF">>, <<"u00D8", "u00B2">>>>,\* line 72
        <<<<"u00EF", "u00BA", "u00B2">>, <<"u00D8", "u00B3">>>>,\* line 75
        <<<<"u00EF", "u00BA", "u00B1">>, <<"u00D8", "u00B3">>>>,\* line 75
        <<<<"u00EF", "u00BA", "u00B4">>, <<"u00D8", "u00B3">>>>,\* line 75
        <<<<"u00EF", "u00BA", "u00B3">>, <<"u00D8", "u00B3">>>>,\* line 75
        <<<<"u00EF", "u00BA", "u00B6">>, <<"u00D8", "u00B4">>>>,\* line 78
        <<<<"u00EF", "u00BA", "u00B5">>, <<"u00D8", "u00B4">>>>,\* line 78
        <<<<"u00EF", "u00BA", "u00B8">>, <<"u00D8", "u00B4">>>>,\* line 78
        <<<<"u00EF", "u00BA", "u00B7">>, <<"u00D8", "u00B4">>>>,\* line 78
        <<<<"u00EF", "u00BA", "u00BA">>, <<"u00D8", "u00B5">>>>,\* line 81
        <<<<"u00EF", "u00BA", "u00B9">>, <<"u00D8", "u00B5">>>>,\* line 81
        <<<<"u00EF", "u00BA", "u00BC">>, <<"u00D8", "u00B5">>>>,\* line 81
        <<<<"u00EF", "u00BA", "u00BB">>, <<"u00D8", "u00B5">>>>,\* line 81
        <<<<"u00EF", "u00BA", "u00BE">>, <<"u00D8", "u00B6">>>>,\* line 84
        <<<<"u00EF", "u00BA", "u00BD">>, <<"u00D8", "u00B6">>>>,\* line 84
        <<<<"u00EF", "u00BB", "u20AC">>, <<"u00D8", "u00B6">>>>,\* line 84
        <<<<"u00EF", "u00BA", "u00BF">>, <<"u00D8", "u00B6">>>>,\* line 84
        <<<<"u00EF", "u00BB", "u201A">>, <<"u00D8", "u00B7">>>>,\* line 87
        <<<<"u00EF", "u00BB">>, <<"u00D8", "u00B7">>>>,       \* line 87
        <<<<"u00EF", "u00BB", "u201E">>, <<"u00D8", "u00B7">>>>,\* line 87
        <<<<"u00EF", "u00BB", "u0192">>, <<"u00D8", "u00B7">>>>,\* line 87
        <<<<"u00EF", "u00BB", "u2020">>, <<"u00D8", "u00B8">>>>,\* line 90
        <<<<"u00EF", "u00BB", "u2026">>, <<"u00D8", "u00B8">>>>,\* line 90
        <<<<"u00EF", "u00BB", "u02C6">>, <<"u00D8", "u00B8">>>>,\* line 90
        <<<<"u00EF", "u00BB", "u2021">>, <<"u00D8", "u00B8">>>>,\* line 90
        <<<<"u00EF", "u00BB", "u0160">>, <<"u00D8", "u00B9">>>>,\* line 93
        <<<<"u00EF", "u00BB", "u2030">>, <<"u00D8", "u00B9">>>>,\* line 93
        <<<<"u00EF", "u00BB", "u0152">>, <<"u00D8", "u00B9">>>>,\* line 93
        <<<<"u00EF", "u00BB", "u2039">>, <<"u00D8", "u00B9">>>>,\* line 93
        <<<<"u00EF", "u00BB">>, <<"u00D8", "u00BA">>>>,       \* line 96
        <<<<"u00EF", "u00BB">>, <<"u00D8", "u00BA">>>>,       \* line 96
        <<<<"u00EF", "u00BB">>, <<"u00D8", "u00BA">>>>,       \* line 96
        <<<<"u00EF", "u00BB">>, <<"u00D8", "u00BA">>>>,       \* line 96
        <<<<"u00EF", "u00BB", "u2019">>, <<"u00D9">>>>,       \* line 99
        <<<<"u00EF", "u00BB", "u2018">>, <<"u00D9">>>>,       \* line 99
        <<<<"u00EF", "u00BB", "u201D">>, <<"u00D9">>>>,       \* line 99
        <<<<"u00EF", "u00BB", "u201C">>, <<"u00D9">>>>,       \* line 99
        <<<<"u00EF", "u00BB", "u2013">>, <<"u00D9", "u201A">>>>,\* line 102
        <<<<"u00EF", "u00BB", "u2022">>, <<"u00D9", "u201A">>>>,\* line 102
        <<<<"u00EF", "u00BB", "u02DC">>, <<"u00D9", "u201A">>>>,\* line 102
        <<<<"u00EF", "u00BB", "u2014">>, <<"u00D9", "u201A">>>>,\* line 102
        <<<<"u00EF", "u00BB", "u0161">>, <<"u00DA", "u00A9">>>>,\* line 105
        <<<<"u00EF", "u00BB", "u2122">>, <<"u00DA", "u00A9">>>>,\* line 105
        <<<<"u00EF", "u00BB", "u0153">>, <<"u00DA", "u00A9">>>>,\* line 105
        <<<<"u00EF", "u00BB", "u203A">>, <<"u00DA", "u00A9">>>>,\* line 105
        <<<<"u00EF", "u00BB">>, <<"u00D9", "u201E">>>>,       \* line 108
        <<<<"u00EF", "u00BB">>, <<"u00D9", "u201E">>>>,       \* line 108
        <<<<"u00EF", "u00BB", "u00A0">>, <<"u00D9", "u201E">>>>,\* line 108
        <<<<"u00EF", "u00BB", "u0178">>, <<"u00D9", "u201E">>>>,\* line 108
        <<<<"u00EF", "u00BB", "u00A2">>, <<"u00D9", "u2026">>>>,\* line 111
        <<<<"u00EF", "u00BB", "u00A1">>, <<"u00D9", "u2026">>>>,\* line 111
        <<<<"u00EF", "u00BB", "u00A4">>, <<"u00D9", "u2026">>>>,\* line 111
        <<<<"u00EF", "u00BB", "u00A3">>, <<"u00D9", "u2026">>>>,\* line 111
        <<<<"u00EF", "u00BB", "u00A6">>, <<"u00D9", "u2020">>>>,\* line 114
        <<<<"u00EF", "u00BB", "u00A5">>, <<"u00D9", "u2020">>>>,\* line 114
        <<<<"u00EF", "u00BB", "u00A8">>, <<"u00D9", "u2020">>>>,\* line 114
        <<<<"u00EF", "u00BB", "u00A7">>, <<"u00D9", "u2020">>>>,\* line 114
        <<<<"u00EF", "u00BB", "u00AA">>, <<"u00D9", "u2021">>>>,\* line 117
        <<<<"u00EF", "u00BB", "u00A9">>, <<"u00D9", "u2021">>>>,\* line 117
        <<<<"u00EF", "u00BB", "u00AC">>, <<"u00D9", "u2021">>>>,\* line 117
        <<<<"u00EF", "u00BB", "u00AB">>, <<"u00D9", "u2021">>>>,\* line 117
        <<<<"u00EF", "u00BB", "u00AE">>, <<"u00D9", "u02C6">>>>,\* line 120
        <<<<"u00EF", "u00BB", "u00AD">>, <<"u00D9", "u02C6">>>>,\* line 120
        <<<<"u00EF", "u00BB", "u00B2">>, <<"u00DB", "u0152">>>>,\* line 123
        <<<<"u00EF", "u00BB", "u00B1">>, <<"u00DB", "u0152">>>>,\* line 123
        <<<<"u00EF", "u00BB", "u00B4">>, <<"u00DB", "u0152">>>>,\* line 123
        <<<<"u00EF", "u00BB", "u00B3">>, <<"u00DB", "u0152">>>>,\* line 123
        <<<<"u00EF", "u00BB", "u00B0">>, <<"u00DB", "u0152">>>>,\* line 124
        <<<<"u00EF", "u00BB", "u00AF">>, <<"u00DB", "u0152">>>>,\* line 124
        <<<<"u00EF", "u00AD", "u2013">>, <<"u00D9", "u00BE">>>>,\* line 127
        <<<<"u00EF", "u00AD", "u02DC">>, <<"u00D9", "u00BE">>>>,\* line 127
        <<<<"u00EF", "u00AD", "u2122">>, <<"u00D9", "u00BE">>>>,\* line 127
        <<<<"u00EF", "u00AD", "u00BB">>, <<"u00DA", "u2020">>>>,\* line 128
        <<<<"u00EF", "u00AD", "u00BA">>, <<"u00DA", "u2020">>>>,\* line 128
        <<<<"u00EF", "u00AD", "u00BC">>, <<"u00DA", "u2020">>>>,\* line 128
        <<<<"u00EF", "u00AD", "u00BD">>, <<"u00DA", "u2020">>>>,\* line 128
        <<<<"u00EF", "u00AE", "u2039">>, <<"u00DA", "u02DC">>>>,\* line 129
        <<<<"u00EF", "u00AE">>, <<"u00DA", "u00A9">>>>,       \* line 130
        <<<<"u00EF", "u00AE">>, <<"u00DA", "u00A9">>>>,       \* line 130
        <<<<"u00EF", "u00AE", "u2018">>, <<"u00DA", "u00A9">>>>,\* line 130
        <<<<"u00EF", "u00AE">>, <<"u00DA", "u00A9">>>>,       \* line 130
        <<<<"u00EF", "u00AE", "u201C">>, <<"u00DA", "u00AF">>>>,\* line 131
        <<<<"u00EF", "u00AE", "u2019">>, <<"u00DA", "u00AF">>>>,\* line 131
        <<<<"u00EF", "u00AE", "u2022">>, <<"u00DA", "u00AF">>>>,\* line 131
        <<<<"u00EF", "u00AE", "u201D">>, <<"u00DA", "u00AF">>>>,\* line 131
        <<<<"u00EF", "u00BA", "u20AC">>, <<"u00D8", "u00A1">>>>,\* line 134
        <<<<"u00EF", "u00BA", "u201A">>, <<"u00D8", "u00A2">>>>,\* line 135
        <<<<"u00EF", "u00BA">>, <<"u00D8", "u00A2">>>>,       \* line 135
        <<<<"u00EF", "u00BA", "u201E">>, <<"u00D8", "u00A3">>>>,\* line 136
        <<<<"u00EF", "u00BA", "u0192">>, <<"u00D8", "u00A3">>>>,\* line 136
        <<<<"u00EF", "u00BA", "u2020">>, <<"u00D8", "u00A4">>>>,\* line 137
        <<<<"u00EF", "u00BA", "u2026">>, <<"u00D8", "u00A4">>>>,\* line 137
        <<<<"u00EF", "u00BA", "u02C6">>, <<"u00D8", "u00A5">>>>,\* line 138
        <<<<"u00EF", "u00BA", "u2021">>, <<"u00D8", "u00A5">>>>,\* line 138
        <<<<"u00EF", "u00BA", "u0160">>, <<"u00D8", "u00A6">>>>,\* line 139
        <<<<"u00EF", "u00BA", "u2030">>, <<"u00D8", "u00A6">>>>,\* line 139
        <<<<"u00EF", "u00BA", "u0152">>, <<"u00D8", "u00A6">>>>,\* line 139
        <<<<"u00EF", "u00BA", "u2039">>, <<"u00D8", "u00A6">>>>,\* line 139
        <<<<"u00EF", "u00BA", "u201D">>, <<"u00D8", "u00A9">>>>,\* line 140
        <<<<"u00EF", "u00BA", "u201C">>, <<"u00D8", "u00A9">>>> \* line 140
    >>)

\* the positions of s at which old occurs
Occurrences(s, old) ==
    SelectSeq(Indices(s), LAMBDA i : i + Len(old) - 1 <= Len(s)
                                     /\ SubSeq(s, i, i + Len(old) - 1) = old)

\* only the first occurrence of old replaced
ReplaceFirst(s, old, new) ==
    LET at == Occurrences(s, old)
    IN IF at = <<>> THEN s
       ELSE SubSeq(s, 1, at[1] - 1) \o new \o SubSeq(s, at[1] + Len(old), Len(s))

\* str.replace(old, new): every non-overlapping occurrence, left to right
RECURSIVE Replace(_, _, _)
Replace(s, old, new) ==
    LET at == Occurrences(s, old)
    IN IF at = <<>> THEN s
       ELSE SubSeq(s, 1, at[1] - 1) \o new
            \o Replace(SubSeq(s, at[1] + Len(old), Len(s)), old, new)

\* for wrong, correct in map.items(): text = text.replace(wrong, correct)
\* for the items lo..hi, in order (the first half, then the second half); in
\* the empty text there is nothing to replace
RECURSIVE ReplaceRange(_, _, _, _)
ReplaceRange(text, items, lo, hi) ==
    IF text = <<>> \/ lo > hi THEN text
    ELSE IF lo = hi THEN Replace(text, items[lo][1], items[lo][2])
    ELSE LET mid == (lo + hi) \div 2
         IN ReplaceRange(ReplaceRange(text, items, lo, mid), items, mid + 1, hi)

ReplaceItems(text, items) == ReplaceRange(text, items, 1, Len(items))

\* clean_tajik_cyrillic (the replace is skipped when the count is 0, where it
\* would change nothing)
CleanTajikCyrillic(text) == ReplaceItems(text, TAJIK_CYRILLIC_MAP)

\* clean_arabic_script
CleanArabicScript(text) == ReplaceItems(text, ARABIC_PRESENTATION_FORMS)

\* the text a match m of a search in s matched (group(0))
Matched(s, m) == Slice(s, m.start, m.end - 1)

\* re.sub on s, given the matches ms found in s and the replacement repls[k] of
\* the k-th match: the text between the matches is kept
Sub(s, ms, repls) ==
    LET before(k) == Slice(s, IF k = 1 THEN 1 ELSE ms[k - 1].end, ms[k].start - 1)
    IN IF ms = <<>> THEN s
       ELSE Join([k \in 1..Len(ms) |-> before(k) \o repls[k]], <<>>)
            \o Slice(s, ms[Len(ms)].end, Len(s))

\* the runs taken with the spaces between them
RunsWithSpaces == Plus(Chr(ArabicBlock \cup {" "}))

\* pattern = r'[؀-ۿ]+'
ArabicRunPattern == Plus(Chr(ArabicBlock))

\* the matched run returned as it is
MatchUnchanged(arabic_text) == arabic_text

\* reverse_match: arabic_text[::-1]
ReverseMatch(arabic_text) == Reversed(arabic_text)

\* the text returned as it is
TextUnchanged(text) == text

\* reverse_arabic_text: re.sub(pattern, reverse_match, text)
ReverseArabicText(text) ==
    LET ms == FindAll(ArabicRunPattern, text)
    IN Sub(text, ms, [k \in 1..Len(ms) |-> ReverseMatch(Matched(text, ms[k]))])

(***************************************************************************)
(* Bounds and inputs.                                                      *)
(***************************************************************************)
MaxLines == 3
MaxGlossWords == 3
MaxTokens == 3
MaxBodyLines == 1
MaxRunText == 4
MaxBeyond == 2

Pad(n) == [i \in 1..n |-> "z"]

\* the lines documents are made of
SegLines ==
    { <<"A", "B", " ", "x", " ", "z">>,
      <<" ", "A", "B", " ", "t", ".", " ", "x">>,
      <<"A", "B", " ", "t", "m", " ", "z">>,
      <<"A", "B", " ", "z">>,
      <<"z", " ", "B", "A", " ", "y">>,
      <<"A", "B", " ", "I", " ", "x", " ", "1", ".", " ", "z">>,
      <<"A", "B", " ">> \o Pad(Window) \o <<"x">> }

\* text.split('\n') of the empty document (one empty line) and of every document
\* of at most MaxLines of these lines
Docs == {<< <<>> >>} \cup UNION {[1..n -> SegLines] : n \in 1..MaxLines}

\* glosses: up to MaxGlossWords Arabic words, separated by one or two spaces
GlossWords == {<<"x">>, <<"y", "x">>}
GlossSeps == {<<" ">>, <<" ", " ">>}

RECURSIVE Glosses(_)
Glosses(k) ==
    IF k = 0 THEN {<<>>}
    ELSE IF k = 1 THEN GlossWords
    ELSE {g \o sep \o w : g \in Glosses(k - 1), sep \in GlossSeps, w \in GlossWords}

\* what may stand between the headword and the gloss
MarkerParts ==
    { <<>>,
      <<"t", ".", " ">>,
      <<"t", ".", "-", "m", ".", " ">>,
      <<"t", "s", ".", " ">>,
      <<"t", "s", " ">>,
      <<"t", ".", "\t">>,
      <<"s", "s", "s", "s", "s", "s", ".", " ">>,
      <<"s", "s", "s", "s", "s", "s", "s", ".", " ">> }

Tails == {<<>>, <<" ", "z">>}

GlossLines ==
    {<<"A", "B", " ">> \o m \o g \o t :
        m \in MarkerParts, g \in UNION {Glosses(k) : k \in 0..MaxGlossWords}, t \in Tails}

\* sense texts: up to MaxTokens of these pieces, one after the other
SenseTokens ==
    { <<"1", ".", " ">>,
      <<" ", "2", ".", " ">>,
      <<"z">>,
      <<"z", "1">>,
      <<" ", "B", "A", " ", "y">> }

RECURSIVE TokenTexts(_)
TokenTexts(k) ==
    IF k = 0 THEN {<<>>}
    ELSE {t \o tok : t \in TokenTexts(k - 1), tok \in SenseTokens}

SenseLines ==
    {<<"A", "B", " ", "x", " ">> \o t : t \in UNION {TokenTexts(k) : k \in 0..MaxTokens}}

\* body lines of a block: stripped lines that are no header
BodyLineSet ==
    { <<"z", " ", " ", "z">>,
      <<"2", ".", " ", "z">>,
      <<"z", " ", "B", "A", " ", "y">> }

Bodies == UNION {[1..n -> BodyLineSet] : n \in 0..MaxBodyLines}

\* register tables: the program's, and tables in which one key is a proper prefix
\* of another ('т.' and 'т.-м.'; 'т.' and 'т. м.'; these and 'т. м. с.')
PrefixTable ==
    << << <<"t", ".">>, <<"short">> >>,
       << <<"t", ".", "-", "m", ".">>, <<"long">> >> >>

SpacedTable ==
    << << <<"t", ".">>, <<"short">> >>,
       << <<"t", ".", " ", "m", ".">>, <<"long">> >> >>

ChainTable ==
    << << <<"t", ".">>, <<"short">> >>,
       << <<"t", ".", " ", "m", ".", " ", "s", ".">>, <<"longest">> >>,
       << <<"t", ".", " ", "m", ".">>, <<"long">> >> >>

\* keys of the same length
TieTable ==
    << << <<"t", ".">>, <<"short">> >>,
       << <<"s", ".">>, <<"siyosi">> >>,
       << <<"m", ".">>, <<"mid">> >> >>

RegisterTables == {REGISTER_DOMAIN, PrefixTable, SpacedTable, ChainTable, TieTable}

RegisterTexts ==
    { <<"t", ".", "-", "m", ".", " ", "z">>,
      <<"t", ".", "-", "m", ".", "\t", "z">>,
      <<"t", ".", "-", "m", ".">>,
      <<"t", ".", "-", "m", ".", "z">>,
      <<"t", ".", " ", "z">>,
      <<"t", ".", " ", "m", ".", " ", "z">>,
      <<"t", ".", " ", "m", ".">>,
      <<"t", ".", " ", "m", ".", " ", "s", ".", " ", "z">>,
      <<"s", ".", " ", "z">>,
      <<"s", ".", "\t", "z">>,
      <<"z">> }

RegisterLines ==
    {h \o r : h \in {<<"A", "B", " ", "x", " ">>, <<"A", "B", " ">>}, r \in RegisterTexts}

\* the calls _process_entry(header_line, definition_text) the segmenter can make:
\* the header is an accepted line, stripped
EntryInputs ==
    {[header_line |-> HeaderLine(h), definition_text |-> <<>>, register_table |-> REGISTER_DOMAIN] :
        h \in {l \in GlossLines : IsHeader(l)}}
    \cup
    {[header_line |-> HeaderLine(h), definition_text |-> Join(b, <<"\n">>),
      register_table |-> REGISTER_DOMAIN] :
        h \in {l \in SenseLines : IsHeader(l)}, b \in Bodies}
    \cup
    {[header_line |-> HeaderLine(h), definition_text |-> <<>>, register_table |-> t] :
        h \in {l \in RegisterLines : IsHeader(l)}, t \in RegisterTables}
    \cup
    \* Arabic-script words in the sense text (after the gloss, in numbered senses,
    \* in a body line), and a header with every field
    {[header_line |-> HeaderLine(h), definition_text |-> b, register_table |-> REGISTER_DOMAIN] :
        h \in {l \in { <<"A", "B", " ", "y", "x", " ", "x", " ", "z", " ", "x", " ", "y", "x">>,
                       <<"A", "B", " ", "x", " ", " ", "y", "x", " ", "1", ".", " ", "y", "x", " ", "x",
                         " ", "2", ".", " ", "x", " ", "y", "x">>,
                       <<"A", "B", " ", "t", ".", " ", "z", " ", "y", "x", " ", "x">>,
                       <<"A", "B", " ", "I", " ", "t", ".", " ", "y", "x", " ", "x", " ", "s", ".", " ",
                         "z", " ", "t", ".", " ", "x">> } : IsHeader(l)},
        b \in {<<>>, <<"y", "x", " ", "x", " ", "z">>, <<"1", ".", " ", "x", " ", "y", "x">>}}

VARIABLES
    \* parse_dictionary_text
    lines,                    \* text.split('\n')
    line_num,                 \* index of the next line to read (1-based)
    current_entry,            \* header line of the entry in progress, or None
    current_lines,            \* its body lines so far
    entries,                  \* output rows
    entry_count,
    skipped_false_positives,
    pc,                       \* "loop", "done"; "idle" when the segmenter is not run
    blocks,                   \* history: every call of _process_entry, in order
    accepted,                 \* history: indices of the lines accepted as headers
    \* _process_entry
    stage,                    \* position in _process_entry; "idle" when not run alone
    header_line,
    definition_text,
    register_table,           \* the table read as REGISTER_DOMAIN
    headword,
    remainder,
    language_marker,
    arabic,
    register,
    definitions,
    result,                   \* the value returned
    captured,                 \* history: the gloss span before word-order reversal
    parsed,                   \* history: _parse_definitions' result before cleaning
    after_headword,           \* history: remainder after the headword step
    after_language,           \* history: remainder after the language step
    after_arabic,             \* history: remainder after the Arabic step
    \* clean_dictionary_text, parse_from_file
    document,                 \* the variable text of the running function
    raw,                      \* history: the extracted text, before cleaning
    cleaned                   \* history: the cleaned text, as the parser reads it

segVars == <<lines, line_num, current_entry, current_lines, entries, entry_count,
             skipped_false_positives, pc, blocks, accepted>>

entVars == <<stage, header_line, definition_text, register_table, headword, remainder,
             language_marker, arabic, register, definitions, result, captured, parsed,
             after_headword, after_language, after_arabic>>

cleanVars == <<document, raw, cleaned>>

vars == <<segVars, entVars, cleanVars>>

(***************************************************************************)
(* parse_dictionary_text as a state machine: one action per kind of line,  *)
(* and the flush at the end of the document.                               *)
(***************************************************************************)
SegIdle ==
    /\ lines = <<>> /\ line_num = 1 /\ current_entry = None /\ current_lines = <<>>
    /\ entries = <<>> /\ entry_count = 0 /\ skipped_false_positives = 0
    /\ pc = "idle" /\ blocks = <<>> /\ accepted = <<>>

EntIdle ==
    /\ stage = "idle" /\ header_line = <<>> /\ definition_text = <<>>
    /\ register_table = REGISTER_DOMAIN /\ headword = None /\ remainder = <<>>
    /\ language_marker = None /\ arabic = None /\ register = None
    /\ definitions = <<>> /\ result = ReturnNone /\ captured = None /\ parsed = <<>>
    /\ after_headword = <<>> /\ after_language = <<>> /\ after_arabic = <<>>

\* no cleaning is run: the parser is given its lines
CleanIdle == document = <<>> /\ raw = <<>> /\ cleaned = <<>>

Init ==
    /\ lines \in Docs
    /\ line_num = 1 /\ current_entry = None /\ current_lines = <<>>
    /\ entries = <<>> /\ entry_count = 0 /\ skipped_false_positives = 0
    /\ pc = "loop" /\ blocks = <<>> /\ accepted = <<>>
    /\ EntIdle
    /\ CleanIdle

\* the flush with the rows put in front of the output instead of at its end
FlushInFront(flush) ==
    LET entry_data == EntryData(current_entry, current_lines)
    IN IF flush
       THEN /\ blocks' = Append(blocks, [header |-> current_entry,
                                         body |-> current_lines,
                                         data |-> entry_data])
            /\ entries' = IF Truthy(entry_data) THEN entry_data.rows \o entries ELSE entries
            /\ entry_count' = IF Truthy(entry_data) THEN entry_count + 1 ELSE entry_count
       ELSE UNCHANGED <<blocks, entries, entry_count>>

\* the flush of the entry in progress (lines 210-214 and 229-233)
Flush(flush) ==
    LET entry_data == EntryData(current_entry, current_lines)
    IN IF flush
       THEN /\ blocks' = Append(blocks, [header |-> current_entry,
                                         body |-> current_lines,
                                         data |-> entry_data])
            /\ entries' = IF Truthy(entry_data) THEN entries \o entry_data.rows ELSE entries
            /\ entry_count' = IF Truthy(entry_data) THEN entry_count + 1 ELSE entry_count
       ELSE UNCHANGED <<blocks, entries, entry_count>>

\* a header-like line the lookahead rejects
FalsePositive ==
    /\ pc = "loop" /\ line_num <= Len(lines)
    /\ IsFalsePositive(lines[line_num])
    /\ skipped_false_positives' = skipped_false_positives + 1
    /\ current_lines' = KeepFalsePositive(current_entry, current_lines, lines[line_num])
    /\ line_num' = line_num + 1
    /\ UNCHANGED <<lines, current_entry, entries, entry_count, pc, blocks, accepted>>
    /\ UNCHANGED <<entVars, cleanVars>>

\* an accepted header: flush the previous entry, start a new one
NewEntry ==
    /\ pc = "loop" /\ line_num <= Len(lines)
    /\ IsHeader(lines[line_num])
    /\ Flush(HasEntryInProgress(current_entry))
    /\ current_entry' = HeaderLine(lines[line_num])
    /\ current_lines' = <<>>
    /\ accepted' = Append(accepted, line_num)
    /\ line_num' = line_num + 1
    /\ UNCHANGED <<lines, skipped_false_positives, pc>>
    /\ UNCHANGED <<entVars, cleanVars>>

\* a line that does not match the header pattern
Continuation ==
    /\ pc = "loop" /\ line_num <= Len(lines)
    /\ ~HeaderMatch(lines[line_num]).ok
    /\ current_lines' = KeepContinuation(current_entry, current_lines, lines[line_num])
    /\ line_num' = line_num + 1
    /\ UNCHANGED <<lines, current_entry, entries, entry_count, skipped_false_positives,
                   pc, blocks, accepted>>
    /\ UNCHANGED <<entVars, cleanVars>>

\* the loop ends without the flush of the last entry
EndOfDocumentNoFlush ==
    /\ pc = "loop" /\ line_num > Len(lines)
    /\ pc' = "done"
    /\ UNCHANGED <<lines, line_num, current_entry, current_lines, entries, entry_count,
                   skipped_false_positives, blocks, accepted>>
    /\ UNCHANGED <<entVars, cleanVars>>

\* after the last line: flush the entry in progress
EndOfDocument ==
    /\ pc = "loop" /\ line_num > Len(lines)
    /\ Flush(HasEntryInProgress(current_entry))
    /\ pc' = "done"
    /\ UNCHANGED <<lines, line_num, current_entry, current_lines,
                   skipped_false_positives, accepted>>
    /\ UNCHANGED <<entVars, cleanVars>>

Next ==
    \/ FalsePositive
    \/ NewEntry
    \/ Continuation
    \/ EndOfDocument

Spec == Init /\ [][Next]_vars

\* what every iteration of the loop does: one more line is read, or the loop ends.
\* Every step of Next is a step of Advance, and Advance is enabled exactly when
\* Next is (while pc = "loop").
Advance ==
    /\ pc = "loop"
    /\ \/ line_num' = line_num + 1 /\ pc' = pc
       \/ line_num' = line_num /\ pc' = "done"

\* the loop over the lines always runs to the end of the document
LiveSpec == Spec /\ WF_<<line_num, pc>>(Advance)

(***************************************************************************)
(* _process_entry alone, one action per step, on every call the segmenter  *)
(* can make (EntryInputs).                                                 *)
(***************************************************************************)
EntryInit ==
    /\ SegIdle
    /\ CleanIdle
    /\ \E input \in EntryInputs :
          /\ header_line = input.header_line
          /\ definition_text = input.definition_text
          /\ register_table = input.register_table
    /\ stage = "headword"
    /\ headword = None /\ remainder = <<>>
    /\ language_marker = None /\ arabic = None /\ register = None
    /\ definitions = <<>> /\ result = ReturnNone /\ captured = None /\ parsed = <<>>
    /\ after_headword = <<>> /\ after_language = <<>> /\ after_arabic = <<>>

\* lines 263-271
StepHeadword ==
    /\ stage = "headword"
    /\ headword' = ExtractHeadword(header_line).headword
    /\ remainder' = ExtractHeadword(header_line).remainder
    /\ after_headword' = remainder'
    /\ stage' = IF ExtractHeadword(header_line).ok THEN "language" ELSE "returned"
    /\ UNCHANGED <<header_line, definition_text, register_table, language_marker, arabic,
                   register, definitions, result, captured, parsed, after_language,
                   after_arabic>>
    /\ UNCHANGED <<segVars, cleanVars>>

\* lines 273-282
StepLanguage ==
    /\ stage = "language"
    /\ language_marker' = ExtractLanguage(remainder).language_marker
    /\ remainder' = ExtractLanguage(remainder).remainder
    /\ after_language' = remainder'
    /\ stage' = "arabic"
    /\ UNCHANGED <<header_line, definition_text, register_table, headword, arabic,
                   register, definitions, result, captured, parsed, after_headword,
                   after_arabic>>
    /\ UNCHANGED <<segVars, cleanVars>>

\* lines 284-293
StepArabic ==
    /\ stage = "arabic"
    /\ arabic' = ExtractArabic(remainder).arabic
    /\ captured' = ExtractArabic(remainder).captured
    /\ remainder' = ExtractArabic(remainder).remainder
    /\ after_arabic' = remainder'
    /\ stage' = "register"
    /\ UNCHANGED <<header_line, definition_text, register_table, headword, language_marker,
                   register, definitions, result, parsed, after_headword, after_language>>
    /\ UNCHANGED <<segVars, cleanVars>>

\* lines 295-309
StepRegister ==
    /\ stage = "register"
    /\ register' = ExtractRegister(register_table, remainder).register
    /\ remainder' = ExtractRegister(register_table, remainder).remainder
    /\ stage' = "definitions"
    /\ UNCHANGED <<header_line, definition_text, register_table, headword, language_marker,
                   arabic, definitions, result, captured, parsed, after_headword,
                   after_language, after_arabic>>
    /\ UNCHANGED <<segVars, cleanVars>>

\* lines 311-318
StepDefinitions ==
    /\ stage = "definitions"
    /\ parsed' = ParseDefinitions(FullText(remainder, definition_text))
    /\ definitions' = CleanDefinitions(parsed')
    /\ stage' = "rows"
    /\ UNCHANGED <<header_line, definition_text, register_table, headword, remainder,
                   language_marker, arabic, register, result, captured, after_headword,
                   after_language, after_arabic>>
    /\ UNCHANGED <<segVars, cleanVars>>

BaseEntry ==
    [headword |-> headword, arabic |-> arabic,
     language_marker |-> language_marker, register |-> register]

\* lines 328-336: one row per numbered definition
StepNumberedRows ==
    /\ stage = "rows"
    /\ Len(definitions) > 0
    /\ result' = Return(NumberedRows(BaseEntry, definitions))
    /\ stage' = "returned"
    /\ UNCHANGED <<header_line, definition_text, register_table, headword, remainder,
                   language_marker, arabic, register, definitions, captured, parsed,
                   after_headword, after_language, after_arabic>>
    /\ UNCHANGED <<segVars, cleanVars>>

\* lines 337-350: the single definition, no numbering
StepSingleRow ==
    /\ stage = "rows"
    /\ Len(definitions) = 0
    /\ result' = Return(SingleRow(BaseEntry, remainder, definition_text))
    /\ stage' = "returned"
    /\ UNCHANGED <<header_line, definition_text, register_table, headword, remainder,
                   language_marker, arabic, register, definitions, captured, parsed,
                   after_headword, after_language, after_arabic>>
    /\ UNCHANGED <<segVars, cleanVars>>

EntryNext ==
    \/ StepHeadword
    \/ StepLanguage
    \/ StepArabic
    \/ StepRegister
    \/ StepDefinitions
    \/ StepNumberedRows
    \/ StepSingleRow

SpecEntry == EntryInit /\ [][EntryNext]_vars

(***************************************************************************)
(* The pipeline: extract_full_dictionary's text, cleaned by                *)
(* clean_dictionary_text, then read and parsed by parse_from_file.         *)
(***************************************************************************)
\* r'--- PAGE \d+ ---\n'
PageMarkerPattern ==
    Cat(<<Lit(<<"-", "-", "-", " ", "P", "u0041", "G", "E", " ">>),
          Plus(Chr(UnicodeDigit)),
          Lit(<<" ", "-", "-", "-", "\n">>)>>)

\* the text with its page markers left in
MarkersKept(text) == text

\* text = re.sub(r'--- PAGE \d+ ---\n', '', text)
RemovePageMarkers(text) ==
    LET ms == FindAll(PageMarkerPattern, text)
    IN Sub(text, ms, [k \in 1..Len(ms) |-> <<>>])

\* text.split('\n')
SplitLines(text) ==
    LET nl == SelectSeq(Indices(text), LAMBDA i : text[i] = "\n")
    IN [k \in 1..(Len(nl) + 1) |->
          Slice(text, IF k = 1 THEN 1 ELSE nl[k - 1] + 1,
                      IF k <= Len(nl) THEN nl[k] - 1 ELSE Len(text))]

\* f"--- PAGE {i+1} ---\n{page_text}\n"
TextPage(number, page_text) ==
    <<"-", "-", "-", " ", "P", "u0041", "G", "E", " ">> \o number \o <<" ", "-", "-", "-", "\n">>
    \o page_text \o <<"\n">>

\* extract_full_dictionary: the pages that returned text, each under its marker,
\* joined by newlines; numbers[i] is str(i+1) of the i-th page kept in the model
ExtractedText(numbers, page_texts) ==
    LET kept == SelectSeq(Indices(page_texts), LAMBDA i : page_texts[i] # <<>>)
    IN Join([k \in 1..Len(kept) |-> TextPage(numbers[kept[k]], page_texts[kept[k]])],
            <<"\n">>)

\* pages 1, 2 and 12 of the PDF
PageNumbers == << <<"1">>, <<"2">>, <<"1", "2">> >>

\* page texts with entries, entries running over a page break, and none
EntryPageTexts ==
    { <<>>,
      <<"A", "B", " ", "x", " ", "z">>,
      <<"A", "B", " ", "x", " ", "1", ".", " ", "z", "\n", "2", ".", " ", "z">>,
      <<"z", " ", "B", "A", " ", "y">>,
      <<"A", "B", " ", "z">>,
      <<"2", ".", " ", "z", "\n", "A", "B", " ", "t", ".", " ", "y", "x", " ", "n">> }

\* page texts around every key of the two maps: the key alone, and twice
KeyPageTexts ==
    LET keys == {TAJIK_CYRILLIC_MAP[i][1] : i \in 1..Len(TAJIK_CYRILLIC_MAP)}
                \cup {ARABIC_PRESENTATION_FORMS[i][1] : i \in 1..Len(ARABIC_PRESENTATION_FORMS)}
    IN keys \cup {<<"z">> \o k \o <<"x", "y">> \o k : k \in keys}

\* page texts of Arabic-block and other characters, up to MaxRunText long
RunPageTexts == UNION {[1..n -> {"x", "y", "n", "z", " "}] : n \in 1..MaxRunText}

\* a page with one entry of two numbered senses after some unnumbered text; the
\* extracted text has the gloss "xy" in visual order
ScenarioPageText ==
    <<"A", "B", " ", "I", " ", "a", ".", " ", "y", "x", " ", "m", "t", " ", "z", " ", "z", "z",
      " ", "1", ".", " ", "z", "z", " ", "z", " ", "2", ".", " ", "z", " ", "z", "z">>

\* a page with one entry whose headword is followed by a word that begins with
\* a letter of the roman numerals
NumeralPageText == <<"A", "B", " ", "I", "z", " ", "x", " ", "z">>

\* a page with one entry whose gloss has three words; the extracted text has
\* the gloss "xy n nx" in visual order
GlossPageText ==
    <<"A", "B", " ", "t", ".", " ", "x", "n", " ", "n", " ", "y", "x", " ", "z", " ", "n", "y">>

\* the entries of TAJIK_CYRILLIC_MAP under the comment '# Uppercase', lines 22-27
UppercaseEntries == SubSeq(TAJIK_CYRILLIC_MAP, 1, 6)

\* pages with one entry whose headword holds a malformed uppercase letter
HeadwordKeyPageTexts ==
    {<<"A">> \o UppercaseEntries[i][1] \o <<" ", "x", " ", "z">> : i \in 1..Len(UppercaseEntries)}

PipelineInputs ==
    [1..Len(PageNumbers) -> EntryPageTexts]
    \cup {<<t, <<>>, <<>>>> :
             t \in KeyPageTexts \cup RunPageTexts \cup HeadwordKeyPageTexts
                   \cup {ScenarioPageText, NumeralPageText, GlossPageText}}

PipelineInit ==
    /\ \E page_texts \in PipelineInputs : raw = ExtractedText(PageNumbers, page_texts)
    /\ document = raw /\ cleaned = <<>>
    /\ pc = "tajik"
    /\ lines = <<>> /\ line_num = 1 /\ current_entry = None /\ current_lines = <<>>
    /\ entries = <<>> /\ entry_count = 0 /\ skipped_false_positives = 0
    /\ blocks = <<>> /\ accepted = <<>>
    /\ EntIdle

\* clean_dictionary_text, step 1
StepTajikCyrillic ==
    /\ pc = "tajik"
    /\ document' = CleanTajikCyrillic(document)
    /\ pc' = "arabic"
    /\ UNCHANGED <<lines, line_num, current_entry, current_lines, entries, entry_count,
                   skipped_false_positives, blocks, accepted, raw, cleaned>>
    /\ UNCHANGED entVars

\* clean_dictionary_text, step 2
StepArabicScript ==
    /\ pc = "arabic"
    /\ document' = CleanArabicScript(document)
    /\ pc' = "reverse"
    /\ UNCHANGED <<lines, line_num, current_entry, current_lines, entries, entry_count,
                   skipped_false_positives, blocks, accepted, raw, cleaned>>
    /\ UNCHANGED entVars

\* clean_dictionary_text, step 3, and the cleaned text written to the file
StepReverseArabic ==
    /\ pc = "reverse"
    /\ document' = ReverseArabicText(document)
    /\ cleaned' = document'
    /\ pc' = "parse"
    /\ UNCHANGED <<lines, line_num, current_entry, current_lines, entries, entry_count,
                   skipped_false_positives, blocks, accepted, raw>>
    /\ UNCHANGED entVars

\* parse_from_file reads the cleaned file; parse_dictionary_text, lines 172-181
StartParse ==
    /\ pc = "parse"
    /\ document' = RemovePageMarkers(cleaned)
    /\ lines' = SplitLines(document')
    /\ pc' = "loop"
    /\ UNCHANGED <<line_num, current_entry, current_lines, entries, entry_count,
                   skipped_false_positives, blocks, accepted, raw, cleaned>>
    /\ UNCHANGED entVars

PipelineNext ==
    \/ StepTajikCyrillic
    \/ StepArabicScript
    \/ StepReverseArabic
    \/ StartParse
    \/ FalsePositive
    \/ NewEntry
    \/ Continuation
    \/ EndOfDocument

SpecPipeline == PipelineInit /\ [][PipelineNext]_vars

(***************************************************************************)
(* parse_dictionary_text on lines whose only Arabic character stands at a  *)
(* chosen distance from the end of the header match.                       *)
(***************************************************************************)
\* the headword and the whitespace the header pattern consumes after it
WindowHeads == {<<"A", "B", " ">>, <<"A", "B", " ", " ">>, <<"A", "B", "\t">>}

\* a header-like line with k other characters between the match and the Arabic one
WindowLine(head, k) == head \o Pad(k) \o <<"x">>

WindowLines == {WindowLine(head, k) : head \in WindowHeads, k \in 0..(Window + MaxBeyond)}

\* one such line, alone, followed by a line that is no header, or followed by the
\* line whose Arabic character stands one place further
WindowDocs ==
    {<<l>> : l \in WindowLines}
    \cup {<<l, <<"z", " ", "z">>>> : l \in WindowLines}
    \cup {<<WindowLine(head, k), WindowLine(head, k + 1)>> :
             head \in WindowHeads, k \in 0..(Window + MaxBeyond - 1)}

WindowInit ==
    /\ lines \in WindowDocs
    /\ line_num = 1 /\ current_entry = None /\ current_lines = <<>>
    /\ entries = <<>> /\ entry_count = 0 /\ skipped_false_positives = 0
    /\ pc = "loop" /\ blocks = <<>> /\ accepted = <<>>
    /\ EntIdle
    /\ CleanIdle

SpecWindow == WindowInit /\ [][Next]_vars

(***************************************************************************)
(* Properties of the segmenter (Spec, LiveSpec).                           *)
(***************************************************************************)
\* the lines read so far
Read == 1..(line_num - 1)

\* the lines of SegLines the header test accepts, and every line stripped
AcceptedLines == {l \in SegLines : IsHeader(l)}
Stripped == [l \in SegLines |-> Strip(l)]

\* the read lines the header test accepts
HeadersRead == {i \in Read : lines[i] \in AcceptedLines}

\* the first accepted header among the read lines (0: none yet)
FirstHeader == IF HeadersRead = {} THEN 0 ELSE CHOOSE i \in HeadersRead : \A j \in HeadersRead : i <= j

\* header and body lines of the blocks, in order
RECURSIVE Flatten(_)
Flatten(bs) ==
    IF bs = <<>> THEN <<>>
    ELSE Flatten(SubSeq(bs, 1, Len(bs) - 1)) \o <<bs[Len(bs)].header>> \o bs[Len(bs)].body

\* the block still being accumulated
InProgress ==
    IF pc = "loop" /\ current_entry # None THEN <<current_entry>> \o current_lines ELSE <<>>

\* the read lines from the first accepted header on, stripped
KeptLines ==
    IF FirstHeader = 0 THEN <<>>
    ELSE [k \in 1..(line_num - FirstHeader) |-> Stripped[lines[FirstHeader + k - 1]]]

\* C1: the blocks handed to field extraction (with the one in progress) are as many
\* as the accepted headers, and together they hold every line from the first
\* accepted header on exactly once and in order; the lines before it are in no block
C1_BlocksPartitionLines ==
    /\ Len(blocks) + (IF InProgress = <<>> THEN 0 ELSE 1) = Cardinality(HeadersRead)
    /\ Flatten(blocks) \o InProgress = KeptLines
    /\ pc = "done" => Len(blocks) = Cardinality({i \in 1..Len(lines) : lines[i] \in AcceptedLines})

\* a finished document with noise before the first header and a rejected
\* header-like line in a body
C1_Witness ==
    /\ pc = "done"
    /\ FirstHeader > 1
    /\ \E k \in 1..Len(blocks) : \E b \in 1..Len(blocks[k].body) :
          HeaderMatch(blocks[k].body[b]).ok

\* the abbreviation shape: the short lowercase token ends in a period and
\* whitespace follows it
PeriodMarker(check_text) ==
    /\ Match(MarkerPattern, check_text).ok
    /\ LET token == Group(Match(MarkerPattern, check_text), check_text, 1)
       IN token[Len(token)] = "."

\* C2: a line is accepted as an entry boundary only if the window after the
\* headword holds an Arabic-block character or a short lowercase token followed by a
\* period and whitespace
C2_AcceptedOnlyWithScriptOrAbbreviation ==
    \A k \in 1..Len(accepted) :
        \/ HasArabic(CheckText(lines[accepted[k]]))
        \/ PeriodMarker(CheckText(lines[accepted[k]]))

\* the body an accepted header at line i must be flushed with: the stripped lines
\* up to the next accepted header or the end of the document
NextHeader(i) ==
    LET later == {j \in (i + 1)..Len(lines) : lines[j] \in AcceptedLines}
    IN IF later = {} THEN Len(lines) + 1 ELSE CHOOSE j \in later : \A h \in later : j <= h

ExpectedBody(i) == [k \in 1..(NextHeader(i) - i - 1) |-> Stripped[lines[i + k]]]

\* the rank of line i among the accepted headers
HeaderRank(i) == Cardinality({j \in 1..i : lines[j] \in AcceptedLines})

AcceptedAt(i) == i \in HeadersRead

FlushedAt(i) ==
    /\ i \in 1..Len(lines)
    /\ HeaderRank(i) \in 1..Len(blocks)
    /\ blocks[HeaderRank(i)].header = Stripped[lines[i]]
    /\ blocks[HeaderRank(i)].body = ExpectedBody(i)

\* C3: every accepted header's block (the header and the body lines up to the next
\* accepted header or the end of the document) is eventually flushed, once and in
\* document order, the last one at the end of the document
C3_EveryBlockFlushedOnce ==
    /\ [](Len(blocks) <= Cardinality(HeadersRead))
    /\ \A i \in 1..MaxLines : AcceptedAt(i) ~> [](FlushedAt(i))

\* two blocks flushed, the last one, with a body line, at the end of the document
C3_Witness ==
    /\ pc = "done"
    /\ Len(blocks) = 2
    /\ Len(blocks[2].body) = 1
    /\ FlushedAt(accepted[2])

\* C7: _process_entry returns rows, never None, for every block the segmenter
\* flushes, so every accepted header is counted and has a row
C7_AcceptedHeaderYieldsRows ==
    /\ \A k \in 1..Len(blocks) :
          /\ ~blocks[k].data.is_none
          /\ Len(blocks[k].data.rows) >= 1
          /\ \A r \in 1..Len(blocks[k].data.rows) : blocks[k].data.rows[r].headword # None
    /\ entry_count = Len(blocks)
    /\ Len(entries) >= Len(blocks)

\* a flushed block whose header line had surrounding whitespace stripped
C7_Witness ==
    \E k \in 1..Len(blocks) :
        /\ lines[accepted[k]] # blocks[k].header
        /\ ~blocks[k].data.is_none
        /\ Len(entries) >= 1
(***************************************************************************)
(* Properties of field extraction (SpecEntry).                             *)
(***************************************************************************)
AfterLanguage == stage \in {"arabic", "register", "definitions", "rows", "returned"}
AfterArabic == stage \in {"register", "definitions", "rows", "returned"}
AfterRegister == stage \in {"definitions", "rows", "returned"}

\* the last position of the run of characters of class that starts at i (i - 1: none)
RunEnd(text, i, class) ==
    LET stops == {j \in i..Len(text) : text[j] \notin class}
    IN IF stops = {} THEN Len(text) ELSE (CHOOSE j \in stops : \A h \in stops : j <= h) - 1

\* str.split() joined by single spaces
WhitespaceCollapsed(text) == Join(Split(text), <<" ">>)

\* the candidate sense text: what is left of the header line, then the body lines
CandidateText == remainder \o <<"\n">> \o definition_text

\* the contamination signature starts at i: two or more uppercase letters,
\* whitespace, an Arabic-block character
SignatureAt(text, i) ==
    /\ i + 1 <= Len(text)
    /\ text[i] \in Upper /\ text[i + 1] \in Upper
    /\ LET u == RunEnd(text, i, Upper)
           w == RunEnd(text, u + 1, WS)
       IN w > u /\ w + 1 <= Len(text) /\ text[w + 1] \in ArabicBlock

HasSignature(text) == \E i \in 1..Len(text) : SignatureAt(text, i)

FirstSignature(text) ==
    CHOOSE i \in 1..Len(text) : SignatureAt(text, i) /\ \A j \in 1..(i - 1) : ~SignatureAt(text, j)

TruncatedAtSignature(text) ==
    IF HasSignature(text) THEN Strip(Slice(text, 1, FirstSignature(text) - 1)) ELSE text

\* the numbered-sense pattern starts at i: a decimal integer, a period, whitespace
PatternAt(text, i) ==
    /\ text[i] \in AsciiDigit
    /\ i = 1 \/ text[i - 1] \notin AsciiDigit
    /\ LET d == RunEnd(text, i, AsciiDigit)
       IN d + 2 <= Len(text) /\ text[d + 1] = "." /\ text[d + 2] \in WS

PatternStarts(text) == {i \in 1..Len(text) : PatternAt(text, i)}

\* the k-th element of a set of positions
Nth(S, k) == CHOOSE i \in S : Cardinality({j \in S : j < i}) = k - 1

\* number and text of the k-th numbered sense of the text
SenseNumber(text, k) ==
    LET i == Nth(PatternStarts(text), k)
    IN IntOf(SubSeq(text, i, RunEnd(text, i, AsciiDigit)))

SenseText(text, k) ==
    LET starts == PatternStarts(text)
        i == Nth(starts, k)
        last == IF k < Cardinality(starts) THEN Nth(starts, k + 1) - 1 ELSE Len(text)
    IN WhitespaceCollapsed(Slice(text, RunEnd(text, i, AsciiDigit) + 2, last))

\* C4: without a numbered-sense pattern in the candidate text, the entry has one
\* unnumbered sense and it is the whole candidate text (header-line remainder and
\* body lines), whitespace-collapsed; with nothing left on the header line it may
\* be the body text as it stands
C4_SingleSenseIsWholeCandidate ==
    (stage = "returned" /\ PatternStarts(CandidateText) = {} /\ ~HasSignature(CandidateText))
    => /\ Len(result.rows) = 1
       /\ result.rows[1].definition_number = NoNumber
       /\ \/ result.rows[1].definition = WhitespaceCollapsed(CandidateText)
          \/ remainder = <<>> /\ result.rows[1].definition = Strip(definition_text)

\* C5: every occurrence of the numbered-sense pattern in the candidate text yields
\* one sense with that number and the text up to the next occurrence or the end,
\* trimmed and whitespace-collapsed; none is skipped, also when a sense text holds a
\* digit (stated for candidate texts in which no sense is empty)
C5_EveryNumberedSenseKept ==
    (/\ stage = "returned"
     /\ PatternStarts(CandidateText) # {}
     /\ ~HasSignature(CandidateText)
     /\ \A k \in 1..Cardinality(PatternStarts(CandidateText)) :
            SenseText(CandidateText, k) # <<>>)
    => /\ Len(result.rows) = Cardinality(PatternStarts(CandidateText))
       /\ \A k \in 1..Len(result.rows) :
             /\ result.rows[k].definition_number = SenseNumber(CandidateText, k)
             /\ result.rows[k].definition = SenseText(CandidateText, k)

\* the sense texts before the contamination cleaning
SenseTextsAsParsed ==
    IF Len(parsed) > 0 THEN [k \in 1..Len(parsed) |-> parsed[k].text]
    ELSE <<SingleDefinition(remainder, definition_text)>>

\* C6: every sense text of the output, numbered or not, is the parsed text cut at
\* the start of its first contamination signature and trimmed, and holds no signature
C6_SensesCutAtContamination ==
    stage = "returned"
    => /\ Len(result.rows) = Len(SenseTextsAsParsed)
       /\ \A k \in 1..Len(result.rows) :
             /\ result.rows[k].definition = TruncatedAtSignature(SenseTextsAsParsed[k])
             /\ result.rows[k].definition = Strip(result.rows[k].definition)
             /\ ~HasSignature(result.rows[k].definition)

\* a numbered sense that held the signature and was cut
C6_Witness ==
    /\ stage = "returned"
    /\ \E k \in 1..Len(parsed) :
          /\ HasSignature(parsed[k].text)
          /\ result.rows[k].definition # parsed[k].text

\* key short is a proper prefix of key long
ProperPrefix(short, long) == Len(short) < Len(long) /\ SubSeq(long, 1, Len(short)) = short

PrefixPairs(table) ==
    {p \in {<<table[i][1], table[j][1]>> : i, j \in 1..Len(table)} : ProperPrefix(p[1], p[2])}

\* the text starts with the key, and one of the separators or the end of the text follows
KeyThen(text, key, separators) ==
    /\ StartsWith(text, key)
    /\ Len(text) = Len(key) \/ text[Len(key) + 1] \in separators

\* the longest key of the table the text starts with in this way
LongestKey(text, table, separators) ==
    LET hits == {i \in 1..Len(table) : KeyThen(text, table[i][1], separators)}
    IN table[CHOOSE i \in hits : \A j \in hits : Len(table[j][1]) <= Len(table[i][1])][1]

LongerKeyWins(separators) ==
    \A p \in PrefixPairs(register_table) :
        KeyThen(after_arabic, p[2], separators)
        => LET key == LongestKey(after_arabic, register_table, separators)
           IN /\ Len(key) >= Len(p[2])
              /\ register = Lookup(register_table, key)
              /\ remainder = Strip(Slice(after_arabic, Len(key) + 1, Len(after_arabic)))

\* C8 (as amended): when one key of the register table is a proper prefix of another
\* and the text starts with the longer key followed by a space character or the end
\* of the text, the register is the expansion of the longer key (of the longest key
\* that so matches) and that whole key is consumed, never the shorter key
C8_LongerKeyWinsBeforeSpace == AfterRegister => LongerKeyWins({" "})

\* C8 (as stated): the same with any whitespace after the longer key
C8_LongerKeyWinsBeforeWhitespace == AfterRegister => LongerKeyWins(WS)

\* the longer of two keys matched where the shorter one, followed by a space, matches too
C8_Witness ==
    /\ stage = "returned"
    /\ \E p \in PrefixPairs(register_table) :
          /\ KeyThen(after_arabic, p[2], {" "})
          /\ RegisterMatches(after_arabic, p[1])
          /\ register = Lookup(register_table, p[2])

\* the text begins with a short lowercase token, whitespace, an Arabic-block character
TokenEnd(text) == RunEnd(text, 1, Chars \ WS)

ShortLowercaseToken(token) ==
    /\ Len(token) \in 1..7
    /\ token[1] \in Lower
    /\ \A i \in 2..Len(token) : token[i] \in MarkerTail

TokenThenArabic(text) ==
    /\ ShortLowercaseToken(SubSeq(text, 1, TokenEnd(text)))
    /\ LET w == RunEnd(text, TokenEnd(text) + 1, WS)
       IN w > TokenEnd(text) /\ w + 1 <= Len(text) /\ text[w + 1] \in ArabicBlock

LeadingToken == SubSeq(after_headword, 1, TokenEnd(after_headword))

SingleSpaced(text) ==
    \A i \in 1..Len(text) :
        text[i] \in WS => text[i] = " " /\ (i < Len(text) => text[i + 1] \notin WS)

OnePage(page_text) == ExtractedText(PageNumbers, <<page_text, <<>>, <<>>>>)

\* the items of both maps, in the order the Normalizer applies them
MapItems == TAJIK_CYRILLIC_MAP \o ARABIC_PRESENTATION_FORMS

\* a page text with the sequence q standing alone, and one with q twice in it
Alone(q) == q
Twice(q) == <<"z">> \o q \o <<"x", "y">> \o q

\* both character maps have been applied
Normalized == pc = "reverse"

\* C11: after clean_tajik_cyrillic and clean_arabic_script, every occurrence of
\* every key of the two maps stands replaced by that key's own replacement: a
\* page text that is a key, or holds a key twice, comes out with the key's
\* replacement in each of those places
C11_EveryKeyReplacedByItsOwn ==
    Normalized =>
        \A i \in 1..Len(MapItems) :
            /\ raw = OnePage(Alone(MapItems[i][1])) => document = OnePage(Alone(MapItems[i][2]))
            /\ raw = OnePage(Twice(MapItems[i][1])) => document = OnePage(Twice(MapItems[i][2]))

\* a key of either map occurs in the text
HoldsAKey(q) == \E i \in 1..Len(MapItems) : Occurrences(q, MapItems[i][1]) # <<>>

\* C12: the text that clean_tajik_cyrillic and clean_arabic_script return holds no
\* key of either map, and the two functions applied to it again return it unchanged
C12_NormalizerIdempotent ==
    Normalized =>
        /\ ~HoldsAKey(document)
        /\ CleanArabicScript(CleanTajikCyrillic(document)) = document

\* a text that held a key twice has been normalized
C12_Witness ==
    /\ Normalized
    /\ \E i \in 1..Len(MapItems) : raw = OnePage(Twice(MapItems[i][1]))
    /\ document # raw

\* positions a..b of s are a maximal run of Arabic-block characters
MaximalRun(s, a, b) ==
    /\ a <= b
    /\ \A i \in a..b : s[i] \in ArabicBlock
    /\ a = 1 \/ s[a - 1] \notin ArabicBlock
    /\ b = Len(s) \/ s[b + 1] \notin ArabicBlock

\* o is s with every maximal Arabic-block run reversed in place and every other
\* character where it was
RunsReversed(s, o) ==
    /\ Len(o) = Len(s)
    /\ \A i \in 1..Len(s) : s[i] \notin ArabicBlock => o[i] = s[i]
    /\ \A a \in 1..Len(s) : \A b \in a..Len(s) :
          MaximalRun(s, a, b) => \A i \in a..b : o[i] = s[a + b - i]

\* C13: reverse_arabic_text reverses, character by character, every maximal run of
\* Arabic-block characters of the text it is given and leaves every other
\* character in place
C13_EveryArabicRunReversed ==
    [][pc = "reverse" => RunsReversed(document, document')]_vars

\* a text with a run of two characters, a space and a run of one has been reversed
C13_Witness ==
    /\ pc = "parse"
    /\ raw = OnePage(<<"x", "n", " ", "y">>)
    /\ cleaned = OnePage(<<"n", "x", " ", "y">>)

\* the maximal runs of Arabic-block characters of s, in order
ArabicRuns(s) ==
    LET starts == SelectSeq(Indices(s), LAMBDA i : s[i] \in ArabicBlock
                                                   /\ (i = 1 \/ s[i - 1] \notin ArabicBlock))
        ends == SelectSeq(Indices(s), LAMBDA i : s[i] \in ArabicBlock
                                                 /\ (i = Len(s) \/ s[i + 1] \notin ArabicBlock))
    IN [k \in 1..Len(starts) |-> SubSeq(s, starts[k], ends[k])]

\* every Arabic-block run of the field q stands, character for character, in s
RunsStandIn(q, s) ==
    \A k \in 1..Len(ArabicRuns(q)) : Occurrences(s, ArabicRuns(q)[k]) # <<>>

\* C14: character-level reversal is applied once, to the whole document, after the
\* two character maps and before segmentation: until the third cleaning step the
\* Arabic-block runs are those of the extracted text, from then on the cleaned text
\* has each of them reversed, and the parser never reverses characters again, so
\* every run in a line, a block or an output field stands in the cleaned text as
\* it is
C14_CharactersReversedOnceBeforeSegmentation ==
    /\ pc \in {"tajik", "arabic", "reverse"} => ArabicRuns(document) = ArabicRuns(raw)
    /\ pc \in {"parse", "loop", "done"} =>
          /\ Len(ArabicRuns(cleaned)) = Len(ArabicRuns(raw))
          /\ \A k \in 1..Len(ArabicRuns(raw)) :
                ArabicRuns(cleaned)[k] = Reversed(ArabicRuns(raw)[k])
    /\ pc \in {"loop", "done"} =>
          /\ \A i \in 1..Len(lines) : RunsStandIn(lines[i], cleaned)
          /\ \A b \in 1..Len(blocks) :
                /\ RunsStandIn(blocks[b].header, cleaned)
                /\ \A i \in 1..Len(blocks[b].body) : RunsStandIn(blocks[b].body[i], cleaned)
          /\ \A r \in 1..Len(entries) :
                /\ RunsStandIn(entries[r].headword, cleaned)
                /\ RunsStandIn(entries[r].arabic, cleaned)
                /\ RunsStandIn(entries[r].definition, cleaned)

\* the extracted text had the gloss run reversed ("yx"); the entry's gloss holds
\* it as the cleaned text does ("xy"), after the word-order reversal
C14_Witness ==
    /\ pc = "done"
    /\ Occurrences(raw, <<"y", "x", " ", "n">>) # <<>>
    /\ \E r \in 1..Len(entries) : entries[r].arabic = <<"n", " ", "x", "y">>

\* the rows of the scenario: headword 'AB I', gloss 'xy', etymology the expansion
\* of 'a.', no register, senses 1 and 2
ScenarioRow(num, sense) ==
    [headword |-> <<"A", "B", " ", "I">>, arabic |-> <<"x", "y">>,
     language_marker |-> <<"arabi">>, register |-> None,
     definition_number |-> num, definition |-> sense]

ScenarioRead == lines # <<>> /\ lines[1] = ReverseArabicText(ScenarioPageText)

\* C15: the document whose one line is a headword with a numeral, the etymology
\* marker 'a.', a gloss of one Arabic token, some text and two numbered senses
\* yields one entry: headword, expanded etymology, the gloss unchanged, no
\* register, and the two senses in order, (1, 'zz z') and (2, 'z zz')
C15_ScenarioYieldsTwoSenses ==
    (pc = "done" /\ ScenarioRead) =>
        /\ entry_count = 1
        /\ entries = <<ScenarioRow(1, <<"z", "z", " ", "z">>),
                       ScenarioRow(2, <<"z", " ", "z", "z">>)>>

\* the scenario document has been parsed to the end
C15_Witness == pc = "done" /\ ScenarioRead /\ Len(entries) = 2

\* the rows the output has from block b: none when _process_entry returned nothing
RowsOf(b) == IF Truthy(blocks[b].data) THEN blocks[b].data.rows ELSE <<>>

\* the rows of the blocks 1..n, block after block
RECURSIVE RowsUpTo(_)
RowsUpTo(n) == IF n = 0 THEN <<>> ELSE RowsUpTo(n - 1) \o RowsOf(n)

\* the source text of block b: its header line, then its body lines
BlockText(b) == blocks[b].header \o <<"\n">> \o Join(blocks[b].body, <<"\n">>)

IsPrefix(p, s) == Len(p) <= Len(s) /\ SubSeq(s, 1, Len(p)) = p

\* the numbered rows of block b follow the order of the numbered senses of its
\* source text: row after row they take their number and the start of their
\* text from senses further and further on in the text
InSourceOrder(b) ==
    LET rows == RowsOf(b)
        senses == 1..Cardinality(PatternStarts(BlockText(b)))
    IN (rows # <<>> /\ rows[1].definition_number # NoNumber) =>
          \E f \in [1..Len(rows) -> senses] :
              /\ \A i \in 1..Len(rows) : \A j \in 1..Len(rows) : i < j => f[i] < f[j]
              /\ \A i \in 1..Len(rows) :
                    /\ rows[i].definition_number = SenseNumber(BlockText(b), f[i])
                    /\ IsPrefix(rows[i].definition, SenseText(BlockText(b), f[i]))

\* C16: the output is one record per sense: the records of one block share
\* headword, gloss, etymology and register, stand together in the output in the
\* order of their senses in the source, and the blocks' records follow one
\* another in the order of the blocks' header lines in the document
C16_RowsGroupedInDocumentOrder ==
    pc \in {"loop", "done"} =>
        /\ entries = RowsUpTo(Len(blocks))
        /\ \A b \in 1..Len(blocks) :
              /\ blocks[b].header = Strip(lines[accepted[b]])
              /\ b > 1 => accepted[b - 1] < accepted[b]
              /\ \A i \in 1..Len(RowsOf(b)) :
                    /\ RowsOf(b)[i].headword = RowsOf(b)[1].headword
                    /\ RowsOf(b)[i].arabic = RowsOf(b)[1].arabic
                    /\ RowsOf(b)[i].language_marker = RowsOf(b)[1].language_marker
                    /\ RowsOf(b)[i].register = RowsOf(b)[1].register
              /\ InSourceOrder(b)

\* two blocks gave records, the first of them more than one, with different numbers
C16_Witness ==
    /\ pc = "done"
    /\ Len(blocks) >= 2
    /\ Len(RowsOf(1)) >= 2 /\ Len(RowsOf(2)) >= 1
    /\ RowsOf(1)[1].definition_number # RowsOf(1)[2].definition_number
    /\ RowsOf(1)[1].arabic # RowsOf(2)[1].arabic

\* "--- PAGE " and " ---", what a page-marker line starts and ends with
MarkerHead == <<"-", "-", "-", " ", "P", "u0041", "G", "E", " ">>
MarkerEnd == <<" ", "-", "-", "-">>

\* the line is a page-marker line: '--- PAGE <n> ---', n one or more digits
IsMarkerLine(line) ==
    /\ Len(line) > Len(MarkerHead) + Len(MarkerEnd)
    /\ SubSeq(line, 1, Len(MarkerHead)) = MarkerHead
    /\ SubSeq(line, Len(line) - Len(MarkerEnd) + 1, Len(line)) = MarkerEnd
    /\ \A i \in (Len(MarkerHead) + 1)..(Len(line) - Len(MarkerEnd)) : line[i] \in AsciiDigit

\* the field holds no page marker, whole or in part
MarkerFree(q) == Occurrences(q, MarkerHead) = <<>> /\ Occurrences(q, MarkerEnd) = <<>>

\* C17: the page-marker lines are stripped before segmentation: the lines the
\* segmenter reads are the lines of the cleaned text without its marker lines, in
\* order, so that a marker line never starts, ends or splits an entry, and no
\* marker stands in a header, a body line or an output field
C17_PageMarkersStripped ==
    pc \in {"loop", "done"} =>
        /\ lines = SelectSeq(SplitLines(cleaned), LAMBDA l : ~IsMarkerLine(l))
        /\ \A b \in 1..Len(blocks) :
              /\ MarkerFree(blocks[b].header)
              /\ \A i \in 1..Len(blocks[b].body) : MarkerFree(blocks[b].body[i])
        /\ \A r \in 1..Len(entries) :
              /\ MarkerFree(entries[r].headword)
              /\ MarkerFree(entries[r].arabic)
              /\ MarkerFree(entries[r].definition)

\* the text had three page markers, and an entry that began on one page took a
\* body line from the next
C17_Witness ==
    /\ pc = "done"
    /\ Len(SelectSeq(SplitLines(cleaned), IsMarkerLine)) = 3
    /\ \E b \in 1..Len(blocks) :
          /\ Truthy(blocks[b].data)
          /\ blocks[b].body = <<<<"2", ".", " ", "z">>, <<>>, <<"2", ".", " ", "z">>>>

(***************************************************************************)
(* Further properties of the segmenter (Spec, LiveSpec).                   *)
(***************************************************************************)
\* no line of the document is accepted as a header
NoHeaderLine == \A i \in 1..Len(lines) : lines[i] \notin AcceptedLines

\* C18: a document without an accepted header line, the empty document among
\* them, is read to its end, no entry is ever begun or flushed for it, and the
\* output is empty
C18_NoHeaderNoOutput ==
    /\ [](NoHeaderLine => /\ current_entry = None /\ blocks = <<>>
                          /\ entries = <<>> /\ entry_count = 0)
    /\ NoHeaderLine ~> (pc = "done" /\ entries = <<>>)

\* a document of header-like and other lines, none accepted, has been read to its
\* end
C18_Witness ==
    /\ pc = "done" /\ NoHeaderLine
    /\ Len(lines) = MaxLines /\ skipped_false_positives > 0

(***************************************************************************)
(* Further properties of _process_entry (SpecEntry).                       *)
(***************************************************************************)
\* the row carries an integer sense number / carries none
IsNumbered(row) == row.definition_number \in Nat
IsUnnumbered(row) == row.definition_number = NoNumber

\* C20: the rows _process_entry returns for one entry are either one or more
\* rows that all carry an integer sense number, or exactly one row without a
\* sense number; a row without a number is never returned next to another row
C20_NumberedOrSingleUnnumbered ==
    (stage = "returned" /\ ~result.is_none) =>
        \/ /\ Len(result.rows) >= 1
           /\ \A i \in 1..Len(result.rows) : IsNumbered(result.rows[i])
        \/ /\ Len(result.rows) = 1
           /\ IsUnnumbered(result.rows[1])

\* an entry was returned with two numbered rows although the text that follows
\* its header fields begins with words that belong to no numbered sense
C20_Witness ==
    /\ stage = "returned" /\ ~result.is_none
    /\ Len(result.rows) = 2
    /\ \A i \in 1..Len(result.rows) : IsNumbered(result.rows[i])
    /\ remainder # <<>> /\ Head(remainder) = "z"

(***************************************************************************)
(* Properties of the segmenter's two modes (Spec).                         *)
(***************************************************************************)
\* OUTSIDE: no header has been accepted yet; IN_ENTRY otherwise
Outside == current_entry = None

\* the line the loop reads next is not accepted as a header
NextLineNotAccepted ==
    pc = "loop" /\ line_num <= Len(lines) /\ lines[line_num] \notin AcceptedLines

\* C21: the segmenter starts OUTSIDE; a step never leads from IN_ENTRY back to
\* OUTSIDE; a line read while OUTSIDE that is not accepted as a header (a line
\* that does not match, or a rejected header-like line) leaves the segmenter
\* OUTSIDE with nothing kept; OUTSIDE lasts exactly until the first header is
\* accepted, and the blocks hold only lines from that header on
C21_OutsideUntilFirstHeader ==
    /\ Outside
    /\ [][/\ ~Outside => ~Outside'
          /\ (Outside /\ NextLineNotAccepted) =>
                 /\ Outside'
                 /\ current_lines' = <<>> /\ blocks' = <<>>
                 /\ entries' = <<>> /\ entry_count' = 0]_vars
    /\ [](Outside <=> accepted = <<>>)
    /\ [](Outside => /\ current_lines = <<>> /\ blocks = <<>>
                     /\ entries = <<>> /\ entry_count = 0)
    /\ [](~Outside => Len(Flatten(blocks) \o InProgress) = line_num - accepted[1])

\* a document read to its end whose first header was its third line, after a line
\* that does not match the header pattern and a rejected header-like line
C21_Witness ==
    /\ pc = "done" /\ ~Outside
    /\ accepted = <<3>>
    /\ skipped_false_positives = 1
    /\ \E i \in 1..2 : ~HeaderMatch(lines[i]).ok
    /\ Len(blocks) = 1 /\ blocks[1].body = <<>>

(***************************************************************************)
(* The lookahead window (SpecWindow).                                      *)
(***************************************************************************)
\* index of the first Arabic-block character of the line (0: none)
FirstArabic(line) ==
    IF \E i \in 1..Len(line) : line[i] \in ArabicBlock
    THEN CHOOSE i \in 1..Len(line) :
            /\ line[i] \in ArabicBlock
            /\ \A j \in 1..(i - 1) : line[j] \notin ArabicBlock
    ELSE 0

\* how many characters stand between the headword's trailing whitespace and the
\* first Arabic-block character
ArabicOffset(line) ==
    LET after == CHOOSE i \in 1..Len(line) :
                    /\ line[i] \notin WS /\ line[i] \notin Upper
                    /\ \A j \in 1..(i - 1) : line[j] \in WS \cup Upper
    IN FirstArabic(line) - after

\* the window lines read so far
WindowRead == {i \in Read : lines[i] \in WindowLines}

\* C22: a header-like line whose text after the match holds no abbreviation
\* marker is accepted as a header exactly when its first Arabic-block character
\* stands at one of the offsets 0..99 after the end of the match, the match
\* taking the whitespace that follows the headword; at offset 100 or beyond the
\* line is counted as a false positive
C22_LookaheadIsHundredCharacters ==
    /\ \A i \in WindowRead :
          (ArabicOffset(lines[i]) \in 0..99) <=> (\E a \in 1..Len(accepted) : accepted[a] = i)
    /\ skipped_false_positives =
          Cardinality({i \in WindowRead : ArabicOffset(lines[i]) >= 100})

\* a line with its Arabic character at offset 99 was accepted, and the next line,
\* with it at offset 100, was rejected and became body text of that entry
C22_Witness ==
    /\ pc = "done" /\ Len(lines) = 2
    /\ ArabicOffset(lines[1]) = 99 /\ ArabicOffset(lines[2]) = 100
    /\ accepted = <<1>> /\ skipped_false_positives = 1
    /\ Len(blocks) = 1 /\ blocks[1].body = <<lines[2]>>

(***************************************************************************)
(* Order of the entries of a character map (SpecPipeline).                 *)
(***************************************************************************)
\* no key of the map occurs inside another key of the map
KeysDisjoint(map) ==
    \A i, j \in 1..Len(map) : i # j => Occurrences(map[j][1], map[i][1]) = <<>>

\* C23: each pass of the Normalizer returns the text that the same map applied
\* in another order of its entries (here the opposite order) returns, the keys of
\* each character map being pairwise disjoint
C23_MapOrderIrrelevant ==
    /\ pc = "arabic" => document = ReplaceItems(raw, Reversed(TAJIK_CYRILLIC_MAP))
    /\ pc = "reverse" =>
          document = ReplaceItems(CleanTajikCyrillic(raw), Reversed(ARABIC_PRESENTATION_FORMS))
    /\ Normalized => KeysDisjoint(TAJIK_CYRILLIC_MAP) /\ KeysDisjoint(ARABIC_PRESENTATION_FORMS)

(***************************************************************************)
(* Word-order reversal and the sense texts (SpecEntry).                    *)
(***************************************************************************)
\* the words of b are the words of a in the opposite order
WordsOpposite(a, b) ==
    /\ Len(Split(a)) = Len(Split(b))
    /\ \A k \in 1..Len(Split(a)) : Split(b)[k] = Split(a)[Len(Split(a)) + 1 - k]

\* the text of the entry as _process_entry received it, whitespace runs collapsed
EntryTextCollapsed == CollapseWS(header_line \o <<"\n">> \o definition_text)

\* C24: when _process_entry returns, the stored gloss is the span captured from
\* the header line with the order of its words reversed once (not left as it was,
\* not reversed back), and every sense text stands in the entry's text as it
\* was received, whitespace aside: its words, Arabic-script words among them, keep
\* their order
C24_WordOrderReversedOnlyInGloss ==
    (stage = "returned" /\ ~result.is_none) =>
        /\ captured # None =>
              /\ Occurrences(header_line, captured) # <<>>
              /\ WordsOpposite(captured, arabic)
              /\ \A i \in 1..Len(result.rows) : result.rows[i].arabic = arabic
        /\ captured = None => arabic = None
        /\ \A i \in 1..Len(result.rows) :
              Occurrences(EntryTextCollapsed, CollapseWS(result.rows[i].definition)) # <<>>

\* an entry was returned whose gloss of two different words was stored in the
\* opposite order and whose sense text holds the same two Arabic-script words in
\* the order of the entry's text
C24_Witness ==
    /\ stage = "returned" /\ ~result.is_none
    /\ captured = <<"y", "x", " ", "x">> /\ arabic = <<"x", " ", "y", "x">>
    /\ \E i \in 1..Len(result.rows) :
          Occurrences(result.rows[i].definition, <<"x", " ", "y", "x">>) # <<>>

(***************************************************************************)
(* The header fields are taken from left to right (SpecEntry).             *)
(***************************************************************************)
\* s ends with q
IsSuffix(q, s) == Len(q) <= Len(s) /\ SubSeq(s, Len(s) - Len(q) + 1, Len(s)) = q

\* what a step took from the front of the working string: before without its
\* end after, stripped
Consumed(before, after) == Strip(SubSeq(before, 1, Len(before) - Len(after)))

\* C25: when _process_entry returns, the header line is, from left to right, the
\* headword, the etymology marker if one was taken, the gloss if one was taken,
\* the register marker if one was taken, and the text that is left; the etymology
\* marker stands directly before Arabic script and is stored as the etymology
\* table expands it (or literally), the register marker is a key of the register
\* table and is stored as that table expands it; and every sense text comes from
\* the text that is left and the body, so that no consumed field is part of it
C25_FieldsConsumedLeftToRight ==
    (stage = "returned" /\ ~result.is_none) =>
        /\ IsSuffix(after_headword, header_line)
        /\ Consumed(header_line, after_headword) = headword
        /\ IsSuffix(after_language, after_headword)
        /\ IF language_marker = None THEN after_language = after_headword
           ELSE LET abbrev == Consumed(after_headword, after_language)
                IN /\ abbrev # <<>>
                   /\ \A i \in 1..Len(abbrev) : abbrev[i] \notin ArabicBlock
                   /\ Head(after_language) \in ArabicBlock
                   /\ language_marker = IF HasKey(LANGUAGE_ETYMOLOGY, abbrev)
                                        THEN Lookup(LANGUAGE_ETYMOLOGY, abbrev) ELSE abbrev
        /\ IsSuffix(after_arabic, after_language)
        /\ IF captured = None THEN after_arabic = after_language
           ELSE Consumed(after_language, after_arabic) = captured
        /\ IsSuffix(remainder, after_arabic)
        /\ IF register = None THEN remainder = after_arabic
           ELSE LET marker == Consumed(after_arabic, remainder)
                IN /\ HasKey(register_table, marker)
                   /\ register = Lookup(register_table, marker)
        /\ \A i \in 1..Len(result.rows) :
              Occurrences(CollapseWS(remainder \o <<"\n">> \o definition_text),
                          CollapseWS(result.rows[i].definition)) # <<>>

\* an entry with a headword, an etymology marker, a gloss and a register marker
\* was returned, and its sense text holds a marker-like token and Arabic script
\* that were not taken as fields
C25_Witness ==
    /\ stage = "returned" /\ ~result.is_none
    /\ headword = <<"A", "B", " ", "I">>
    /\ language_marker = <<"turki">>
    /\ arabic = <<"x", " ", "y", "x">>
    /\ register = <<"siyosi">>
    /\ remainder = <<"z", " ", "t", ".", " ", "x">>
    /\ Len(result.rows) = 1 /\ result.rows[1].definition = remainder

(***************************************************************************)
(* What reverse_arabic_text leaves as it is (SpecPipeline).                *)
(***************************************************************************)
\* where the maximal Arabic-block runs of s begin and end
RunBounds(s) == {<<a, b>> \in (1..Len(s)) \X (1..Len(s)) : MaximalRun(s, a, b)}

\* where the lines of s end
LineEnds(s) == {i \in 1..Len(s) : s[i] = "\n"}

\* C26: reverse_arabic_text returns a text of the same length with every
\* character outside the Arabic block where it was, the same line ends, and
\* Arabic-block runs in the same places and of the same lengths, made of the same
\* characters; applied to its own result it returns the text it was given
C26_ReversalKeepsEverythingElse ==
    [][pc = "reverse" =>
          /\ Len(document') = Len(document)
          /\ \A i \in 1..Len(document) :
                document[i] \notin ArabicBlock => document'[i] = document[i]
          /\ LineEnds(document') = LineEnds(document)
          /\ RunBounds(document') = RunBounds(document)
          /\ \A r \in RunBounds(document) :
                \A c \in ArabicBlock :
                    Cardinality({i \in r[1]..r[2] : document'[i] = c})
                    = Cardinality({i \in r[1]..r[2] : document[i] = c})
          /\ ReverseArabicText(document') = document]_vars

\* a text of two lines with Arabic-block runs of different lengths has been
\* reversed, and is not what it was
C26_Witness ==
    /\ pc = "parse"
    /\ cleaned # raw
    /\ Cardinality(LineEnds(cleaned)) >= 3
    /\ \E r, q \in RunBounds(cleaned) : r[2] - r[1] = 1 /\ q[2] = q[1]

(***************************************************************************)
(* Register tables whose keys hold no space (SpecEntry).                   *)
(***************************************************************************)
NoSpaceInKeys(table) ==
    \A i \in 1..Len(table) : \A k \in 1..Len(table[i][1]) : table[i][1][k] # " "

\* the keys of the table that match the text under the rule 'the text starts with
\* the key and a space, or is the key'
MatchingKeys(text, table) ==
    {table[i][1] : i \in {j \in 1..Len(table) : KeyThen(text, table[j][1], {" "})}}

\* C27: with a register table whose keys hold no space, at most one key matches
\* what is left after the gloss; the register stored and the text left over are
\* those of that key, whichever place it has among the keys tried, and none when
\* no key matches
C27_OneKeyMatchesWithoutSpaces ==
    (AfterRegister /\ NoSpaceInKeys(register_table)) =>
        LET hits == MatchingKeys(after_arabic, register_table)
        IN /\ Cardinality(hits) <= 1
           /\ hits = {} => register = None /\ remainder = after_arabic
           /\ \A key \in hits :
                 /\ register = Lookup(register_table, key)
                 /\ remainder = Strip(Slice(after_arabic, Len(key) + 1, Len(after_arabic)))

\* with three keys of the same length in the table, the text began with one of
\* them and went on with another; the first was stored, the second left in the text
C27_Witness ==
    /\ stage = "returned"
    /\ register_table = TieTable
    /\ after_arabic = <<"t", ".", " ", "m", ".", " ", "z">>
    /\ register = <<"short">>
    /\ remainder = <<"m", ".", " ", "z">>

(***************************************************************************)
(* The headword of the segmenter and of _process_entry (SpecPipeline).     *)
(***************************************************************************)
\* the headword group of the segmenter's match, and the text after the match
SegmenterHeadword(line) == Group(HeaderMatch(line), line, 1)
SegmenterRest(line) == Strip(Slice(line, HeaderMatch(line).end, Len(line)))

\* C28: for every accepted header line, the headword of the rows _process_entry
\* returned is the headword group the segmenter matched on that line, and the
\* text field extraction goes on with after the headword is the text that began
\* the segmenter's lookahead
C28_SameHeadwordInBothMatches ==
    \A b \in 1..Len(blocks) :
        /\ \A r \in 1..Len(RowsOf(b)) :
              RowsOf(b)[r].headword = SegmenterHeadword(lines[accepted[b]])
        /\ ExtractHeadword(blocks[b].header).remainder = SegmenterRest(lines[accepted[b]])

(***************************************************************************)
(* The two reversals together (SpecPipeline).                              *)
(***************************************************************************)
\* the lines of the extracted text that the parser's lines come from
RawLines == SplitLines(RemovePageMarkers(raw))

\* the gloss span as _process_entry captures it from the header of block b
CapturedSpan(b) ==
    ExtractArabic(ExtractLanguage(ExtractHeadword(blocks[b].header).remainder).remainder).captured

\* C29: when the gloss span of an entry has two or more words separated by single
\* spaces, the stored gloss is the mirror image, character by character, of the
\* span as it stood in the extracted text, at the place of the header line where
\* the parser captured it
C29_StoredGlossIsMirrorImage ==
    pc \in {"loop", "done"} =>
        \A b \in 1..Len(blocks) :
            LET span == CapturedSpan(b)
                line == lines[accepted[b]]
            IN (span # None /\ SingleSpaced(span) /\ Len(Split(span)) >= 2) =>
                  /\ Len(RawLines) = Len(lines)
                  /\ \E i \in 1..Len(line) :
                        /\ i + Len(span) - 1 <= Len(line)
                        /\ SubSeq(line, i, i + Len(span) - 1) = span
                        /\ \A r \in 1..Len(RowsOf(b)) :
                              RowsOf(b)[r].arabic
                              = Reversed(SubSeq(RawLines[accepted[b]], i, i + Len(span) - 1))

\* the extracted text had the gloss span "xn n yx"; the entry's gloss is "xy n nx"
C29_Witness ==
    /\ pc = "done"
    /\ Occurrences(raw, <<"x", "n", " ", "n", " ", "y", "x">>) # <<>>
    /\ Len(entries) = 1
    /\ entries[1].arabic = <<"x", "y", " ", "n", " ", "n", "x">>

(***************************************************************************)
(* Headwords with letters the Normalizer repaired (SpecPipeline).          *)
(***************************************************************************)
\* the extracted text was the one page whose line is a headword of "A" and the
\* malformed form of the i-th uppercase letter, then a gloss and a sense
HeadwordHeldKey(i) ==
    raw = OnePage(<<"A">> \o UppercaseEntries[i][1] \o <<" ", "x", " ", "z">>)

\* C30: every character the Normalizer writes for an uppercase entry of
\* TAJIK_CYRILLIC_MAP is of the uppercase class of the header pattern, and a line
\* whose headword held the malformed form of such a letter is accepted as a
\* header once the letter is repaired, its headword being the repaired one
C30_RepairedHeadwordRecognized ==
    pc = "done" =>
        \A i \in 1..Len(UppercaseEntries) :
            HeadwordHeldKey(i) =>
                /\ accepted = <<1>>
                /\ Len(entries) = 1
                /\ entries[1].headword = <<"A">> \o UppercaseEntries[i][2]
                /\ \A k \in 1..Len(UppercaseEntries[i][2]) : UppercaseEntries[i][2][k] \in Upper
====
